---- MODULE Spec2Model ----
(***************************************************************************)
(* RoomPulse: the sensor simulation and ingestion pipeline of              *)
(* data_logger.py (DataLogger), the store it writes (database_setup.py)    *)
(* and the alert writer of error_manager.py (ErrorManager.check_value).    *)
(*                                                                         *)
(* Reals are fixed-point integers: a value v stands for v / Unit.          *)
(* A threshold column is None (<<>>, SQL NULL) or <<v>>.                   *)
(* Time is the wall clock in whole seconds, which is what the worker's     *)
(* strftime("%Y-%m-%d %H:%M:%S") keeps of datetime.now().                  *)
(***************************************************************************)
EXTENDS Integers, Sequences, FiniteSets, TLC

(* ------------------------------ bounds --------------------------------- *)

\* effective start_logging() calls (each one creates a writer and workers)
MaxStarts == 2
\* readings one sensor generates over a run
MaxReadings == 2
\* storage operations of the writer that raise
MaxFailures == 1
\* last second of the wall clock
MaxTime == 1
\* calls of ErrorManager.check_value
MaxChecks == 1
\* calls of _generate_value for one sensor, when the generator is run on its own
MaxCalls == 2

(* ----------------------- fixed-point arithmetic ------------------------ *)

\* one unit of a REAL column: 4 decimals, the finest precision _round_value keeps
Unit == 10000

None == <<>>

Some(v) == <<v>>

IsNone(t) == t = None

\* `d if t is None else t`: only None gives the default
OnlyNoneDefaults(t, d) == IF IsNone(t) THEN d ELSE t[1]

\* Python's `t or d` on an optional number: None and 0 are both falsy
PyOr(t, d) == IF IsNone(t) \/ t = Some(0) THEN d ELSE t[1]

Max2(a, b) == IF a >= b THEN a ELSE b

Min2(a, b) == IF a <= b THEN a ELSE b

\* round(value, ndigits) on a value of `step` fixed-point units per kept digit:
\* to the nearest multiple of step, a tie to the even multiple
RoundTo(v, step) ==
    LET q == v \div step
        r == v % step
    IN  IF 2 * r < step THEN q * step
        ELSE IF 2 * r > step THEN (q + 1) * step
        ELSE IF q % 2 = 0 THEN q * step ELSE (q + 1) * step

(* ------------------- database_setup.py: configuration ------------------ *)

KnownTypes ==
    {"temperature", "humidity", "air_quality", "smoke", "gas", "motion",
     "sound", "tampering", "water_leak", "light"}

\* SAMPLING_CONFIG[type]["interval"], in milliseconds
ConfigInterval(sensor_type) ==
    CASE sensor_type = "motion" -> 100
      [] sensor_type = "sound" -> 50
      [] sensor_type = "tampering" -> 10
      [] OTHER -> 1000

\* SAMPLING_CONFIG[type]["normal_range"][1], in fixed-point units
NormalRangeMax(sensor_type) ==
    CASE sensor_type = "temperature" -> 25 * Unit
      [] sensor_type = "humidity" -> 50 * Unit
      [] sensor_type = "light" -> 500 * Unit
      [] OTHER -> 0

\* the rows initialize_sensors() inserts for the two sensors of the model:
\* id 1 is the temperature row, id 6 the motion row
SensorIds == {1, 6}

InitialSensorRow(sensor_id) ==
    IF sensor_id = 1
    THEN [type |-> "temperature", last_reading |-> 20 * Unit, status |-> 0,
          last_reading_time |-> 0,
          min_warning |-> Some(20 * Unit), max_warning |-> Some(30 * Unit),
          min_critical |-> Some(15 * Unit), max_critical |-> Some(35 * Unit)]
    ELSE [type |-> "motion", last_reading |-> 0, status |-> 0,
          last_reading_time |-> 0,
          min_warning |-> Some(0), max_warning |-> Some(1 * Unit),
          min_critical |-> Some(0), max_critical |-> Some(1 * Unit)]

(* ------------------- data_logger.py: pure functions -------------------- *)

\* the configured intervals, not doubled
NominalIntervals(sensor_type) ==
    IF sensor_type \in KnownTypes THEN ConfigInterval(sensor_type) ELSE 1000

\* self.sampling_intervals[type] = interval * 2 (milliseconds); .get(type, 1)
\* gives one second for a type that is not configured
sampling_intervals(sensor_type) ==
    IF sensor_type \in KnownTypes THEN ConfigInterval(sensor_type) * 2 ELSE 1000

\* whole seconds by which the second-resolution clock has advanced, at least,
\* when time.sleep(interval) returns
SleepSeconds(sensor_type) == sampling_intervals(sensor_type) \div 1000

\* the draws of _get_initial_value the model takes: the two ends of the
\* uniform range, or the fixed value
_get_initial_value(sensor_type) ==
    CASE sensor_type = "temperature" -> {20 * Unit, 25 * Unit}
      [] sensor_type = "humidity" -> {40 * Unit, 60 * Unit}
      [] sensor_type = "air_quality" -> {400 * Unit, 800 * Unit}
      [] sensor_type = "smoke" -> {0, 10 * Unit}
      [] sensor_type = "gas" -> {0, 20 * Unit}
      [] sensor_type = "motion" -> {0}
      [] sensor_type = "sound" -> {30 * Unit, 50 * Unit}
      [] sensor_type = "tampering" -> {1000, 2000}
      [] sensor_type = "water_leak" -> {0}
      [] sensor_type = "light" -> {300 * Unit, 400 * Unit}
      [] OTHER -> {0, 50 * Unit}

\* bounds taken from the critical thresholds
CriticalRanges(sensor_type, min_warning, max_warning, min_critical, max_critical) ==
    CASE sensor_type = "temperature" ->
            <<5000, PyOr(min_critical, 15 * Unit), PyOr(max_critical, 35 * Unit)>>
      [] OTHER -> <<5 * Unit, PyOr(min_critical, 0), PyOr(max_critical, 100 * Unit)>>

\* <<change_range, min_val, max_val>>
_get_value_ranges(sensor_type, min_warning, max_warning, min_critical, max_critical) ==
    CASE sensor_type = "temperature" ->
            <<5000, PyOr(min_warning, 15 * Unit), PyOr(max_warning, 35 * Unit)>>
      [] sensor_type = "humidity" ->
            <<2 * Unit, PyOr(min_warning, 20 * Unit), PyOr(max_warning, 80 * Unit)>>
      [] sensor_type = "air_quality" ->
            <<50 * Unit, PyOr(min_warning, 400 * Unit), PyOr(max_warning, 1500 * Unit)>>
      [] sensor_type = "smoke" -> <<5 * Unit, 0, PyOr(max_warning, 100 * Unit)>>
      [] sensor_type = "gas" -> <<10 * Unit, 0, PyOr(max_warning, 200 * Unit)>>
      [] sensor_type = "sound" ->
            <<5 * Unit, PyOr(min_warning, 20 * Unit), PyOr(max_warning, 80 * Unit)>>
      [] sensor_type = "tampering" ->
            <<500, PyOr(min_warning, 1000), PyOr(max_warning, 4000)>>
      [] sensor_type = "water_leak" -> <<1 * Unit, 0, 1 * Unit>>
      [] sensor_type = "light" ->
            <<20 * Unit, PyOr(min_warning, 300 * Unit), PyOr(max_warning, 600 * Unit)>>
      [] OTHER -> <<5 * Unit, PyOr(min_warning, 0), PyOr(max_warning, 100 * Unit)>>

_round_value(value, sensor_type) ==
    IF sensor_type \in {"temperature", "humidity", "sound"}
    THEN RoundTo(value, Unit \div 10)
    ELSE IF sensor_type = "tampering" THEN RoundTo(value, Unit \div 10000)
    ELSE RoundTo(value, Unit \div 100)

\* the draw of random.uniform(-change_range, change_range) the logger's workers
\* take in the model: the low end (the seed is what varies a sensor's walk)
Changes(change_range) == {0 - change_range}

\* a generator that does not clamp
NewValueUnclamped(last, change, sensor_type, min_warning, max_warning, min_critical, max_critical) ==
    _round_value(last + change, sensor_type)

\* a generator that clamps from above only
NewValueUpperOnly(last, change, sensor_type, min_warning, max_warning, min_critical, max_critical) ==
    _round_value(Min2(_get_value_ranges(sensor_type, min_warning, max_warning,
                                        min_critical, max_critical)[3],
                      last + change),
                 sensor_type)

\* the body of _generate_value after the seed: clamp, round
NewValue(last, change, sensor_type, min_warning, max_warning, min_critical, max_critical) ==
    LET r == _get_value_ranges(sensor_type, min_warning, max_warning,
                               min_critical, max_critical)
    IN  _round_value(Max2(r[2], Min2(r[3], last + change)), sensor_type)

\* a classifier that tests the warning thresholds first
StatusWarningFirst(value, min_warning, max_warning, min_critical, max_critical) ==
    IF ~IsNone(min_warning) /\ value <= min_warning[1] THEN 1
    ELSE IF ~IsNone(max_warning) /\ value >= max_warning[1] THEN 1
    ELSE IF ~IsNone(min_critical) /\ value <= min_critical[1] THEN 2
    ELSE IF ~IsNone(max_critical) /\ value >= max_critical[1] THEN 2
    ELSE 0

\* a classifier with < and > for <= and >=
StatusStrict(value, min_warning, max_warning, min_critical, max_critical) ==
    IF ~IsNone(min_critical) /\ value < min_critical[1] THEN 2
    ELSE IF ~IsNone(max_critical) /\ value > max_critical[1] THEN 2
    ELSE IF ~IsNone(min_warning) /\ value < min_warning[1] THEN 1
    ELSE IF ~IsNone(max_warning) /\ value > max_warning[1] THEN 1
    ELSE 0

\* a classifier that takes a threshold of 0 for unset (`if min_critical and ...`)
StatusZeroUnset(value, min_warning, max_warning, min_critical, max_critical) ==
    IF ~IsNone(min_critical) /\ min_critical[1] # 0 /\ value <= min_critical[1] THEN 2
    ELSE IF ~IsNone(max_critical) /\ max_critical[1] # 0 /\ value >= max_critical[1] THEN 2
    ELSE IF ~IsNone(min_warning) /\ min_warning[1] # 0 /\ value <= min_warning[1] THEN 1
    ELSE IF ~IsNone(max_warning) /\ max_warning[1] # 0 /\ value >= max_warning[1] THEN 1
    ELSE 0

_determine_status(value, min_warning, max_warning, min_critical, max_critical) ==
    IF ~IsNone(min_critical) /\ value <= min_critical[1] THEN 2
    ELSE IF ~IsNone(max_critical) /\ value >= max_critical[1] THEN 2
    ELSE IF ~IsNone(min_warning) /\ value <= min_warning[1] THEN 1
    ELSE IF ~IsNone(max_warning) /\ value >= max_warning[1] THEN 1
    ELSE 0

\* the description of a type that is not in the table, given to every type
DescriptionOfUnknown(sensor_type, value, severity) == <<"Abnormal reading: ", value>>

\* descriptions whose "High" and "Low" are exchanged
DescriptionSidesExchanged(sensor_type, value, severity) ==
    CASE sensor_type = "temperature" ->
            IF value > NormalRangeMax("temperature")
            THEN <<"Low temperature: ", value, "°C">>
            ELSE <<"High temperature: ", value, "°C">>
      [] sensor_type = "humidity" ->
            IF value > NormalRangeMax("humidity")
            THEN <<"Low humidity: ", value, "%">>
            ELSE <<"High humidity: ", value, "%">>
      [] sensor_type = "light" ->
            IF value > NormalRangeMax("light")
            THEN <<"Low light level: ", value, " lux">>
            ELSE <<"High light level: ", value, " lux">>
      [] OTHER -> DescriptionOfUnknown(sensor_type, value, severity)

\* the text of the alert, as <<fixed text>> or <<text, value, unit>>: the value is
\* what the f-string formats
_generate_alert_description(sensor_type, value, severity) ==
    CASE sensor_type = "temperature" ->
            IF value > NormalRangeMax("temperature")
            THEN <<"High temperature: ", value, "°C">>
            ELSE <<"Low temperature: ", value, "°C">>
      [] sensor_type = "humidity" ->
            IF value > NormalRangeMax("humidity")
            THEN <<"High humidity: ", value, "%">>
            ELSE <<"Low humidity: ", value, "%">>
      [] sensor_type = "air_quality" -> <<"High CO2 level: ", value, " ppm">>
      [] sensor_type = "smoke" -> <<"High smoke level: ", value, " ppm">>
      [] sensor_type = "gas" -> <<"High gas level: ", value, " ppm">>
      [] sensor_type = "motion" -> <<"Unauthorized motion detected">>
      [] sensor_type = "sound" -> <<"High sound level: ", value, " dB">>
      [] sensor_type = "tampering" -> <<"Abnormal vibration: ", value, " g/deg/s">>
      [] sensor_type = "water_leak" -> <<"Water leak detected">>
      [] sensor_type = "light" ->
            IF value > NormalRangeMax("light")
            THEN <<"High light level: ", value, " lux">>
            ELSE <<"Low light level: ", value, " lux">>
      [] OTHER -> <<"Abnormal reading: ", value>>

\* what an f-string makes of the float v / Unit (its repr): the whole part, a
\* point, and the decimals up to the last one that is not 0, one at least
FloatRepr(v) ==
    LET a == IF v < 0 THEN 0 - v ELSE v
        frac == a % Unit
        d == <<frac \div (Unit \div 10), (frac \div (Unit \div 100)) % 10,
               (frac \div (Unit \div 1000)) % 10, frac % 10>>
        n == CHOOSE i \in 1 .. 4 : (i = 1 \/ d[i] # 0) /\ \A j \in (i + 1) .. 4 : d[j] = 0
    IN  (IF v < 0 THEN "-" ELSE "") \o ToString(a \div Unit) \o "." \o ToString(d[1])
        \o (IF n >= 2 THEN ToString(d[2]) ELSE "")
        \o (IF n >= 3 THEN ToString(d[3]) ELSE "")
        \o (IF n >= 4 THEN ToString(d[4]) ELSE "")

\* the string a description stands for
Text(description) ==
    IF Len(description) = 1 THEN description[1]
    ELSE description[1] \o FloatRepr(description[2])
         \o (IF Len(description) = 3 THEN description[3] ELSE "")

\* the two severities exchanged
SeverityExchanged(status) == IF status = 2 THEN "warning" ELSE "critical"

\* severity = "critical" if data['status'] == 2 else "warning"
Severity(status) == IF status = 2 THEN "critical" ELSE "warning"

(* ------------------------------- state --------------------------------- *)

\* thread generations: generation g is the writer, and the workers, that the
\* g-th effective start_logging() creates
Gens == 1 .. MaxStarts

VARIABLES
    is_running,     \* self.is_running
    db_thread,      \* self.db_thread: the writer last created, 0 while the attribute is absent
    threads,        \* self.threads: sensor_id -> generation of its worker thread, 0 = no entry
    data_queue,     \* self.data_queue
    last_values,    \* self.last_values: sensor_id -> None | Some(value)
    value_lock,     \* holder of self.value_lock: <<>> or <<g, sensor_id>>
    db_lock,        \* holder of self.db_lock: 0 or the writer's generation
    store,          \* the committed content of the database
    wpc,            \* writer g: where it is in _database_writer_loop
    wdata,          \* writer g: its local `data`
    wconn,          \* writer g: the uncommitted statements of its local `conn`
    kpc,            \* worker <<g, sensor_id>>: where it is in _sensor_data_loop
    kvalue,         \* worker <<g, sensor_id>>: its local `value`
    kargs,          \* worker <<g, sensor_id>>: the row it was started with
    cpc,            \* the calling thread: where it is in start_logging / stop_logging
                    \* (one entry per thread where two threads call)
    loaded,         \* the calling thread: `sensors`, the rows fetched by _start_sensor_threads
    last_call,      \* history: the last call the calling thread made
    stop_mark,      \* history: while stop_logging() runs, Len(enqueued) when it cleared the flag
    now,            \* the wall clock, in seconds
    next_sample,    \* sensor_id -> earliest second its next reading can carry (time.sleep)
    generated,      \* history: sensor_id -> the values _generate_value returned
    enqueued,       \* history: every reading put on the queue, in order
    dequeued,       \* history: every reading the writer got from the queue, in order
    outcome,        \* history: for dequeued[i], "inflight", "persisted" or "failed"
    wpos,           \* history: writer g: index in `dequeued` of its local `data`
    checks          \* history: calls of ErrorManager.check_value made

loggerVars == <<is_running, db_thread, threads, data_queue, last_values, value_lock, db_lock>>

writerVars == <<wpc, wdata, wconn, wpos>>

workerVars == <<kpc, kvalue, kargs>>

callerVars == <<cpc, loaded, last_call, stop_mark>>

historyVars == <<generated, enqueued, dequeued, outcome, checks>>

clockVars == <<now, next_sample>>

vars ==
    <<is_running, db_thread, threads, data_queue, last_values, value_lock, db_lock,
      store, wpc, wdata, wconn, kpc, kvalue, kargs, cpc, loaded, last_call,
      stop_mark, now, next_sample, generated, enqueued, dequeued, outcome, wpos, checks>>

Workers == Gens \X SensorIds

NoReading == [sensor_id |-> 0, value |-> 0, status |-> 0, timestamp |-> 0]

NoArgs == [type |-> "", min_warning |-> None, max_warning |-> None,
           min_critical |-> None, max_critical |-> None]

\* DataLogger.__init__, on the database that setup left: the sensor rows, and no
\* measurement or alert yet
Init ==
    /\ is_running = FALSE
    /\ db_thread = 0
    /\ threads = [s \in SensorIds |-> 0]
    /\ data_queue = <<>>
    /\ last_values = [s \in SensorIds |-> None]
    /\ value_lock = <<>>
    /\ db_lock = 0
    /\ store = [sensors |-> [s \in SensorIds |-> InitialSensorRow(s)],
                measurements |-> <<>>, alerts |-> <<>>]
    /\ wpc = [g \in Gens |-> "unborn"]
    /\ wdata = [g \in Gens |-> NoReading]
    /\ wconn = [g \in Gens |-> <<>>]
    /\ kpc = [k \in Workers |-> "unborn"]
    /\ kvalue = [k \in Workers |-> 0]
    /\ kargs = [k \in Workers |-> NoArgs]
    /\ cpc = "idle"
    /\ loaded = {}
    /\ last_call = "none"
    /\ stop_mark = 0
    /\ now = 0
    /\ next_sample = [s \in SensorIds |-> 0]
    /\ generated = [s \in SensorIds |-> <<>>]
    /\ enqueued = <<>>
    /\ dequeued = <<>>
    /\ outcome = <<>>
    /\ wpos = [g \in Gens |-> 0]
    /\ checks = 0

(* ------------------------------ the store ------------------------------ *)

\* an UPDATE that leaves last_reading_time at the setup's value
UpdateWithoutTime(data) == [op |-> "update_sensor", row |-> [data EXCEPT !.timestamp = 0]]

UpdateSensor(data) == [op |-> "update_sensor", row |-> data]

InsertMeasurement(data) == [op |-> "insert_measurement", row |-> data]

InsertAlert(sensor_id, timestamp, value, severity, description) ==
    [op |-> "insert_alert",
     row |-> [sensor_id |-> sensor_id, timestamp |-> timestamp, value |-> value,
              severity |-> severity, description |-> description]]

\* statements that overwrite: the UPDATE clears the row's thresholds, an INSERT
\* replaces the table's rows
ApplyStmtOverwrites(st, stmt) ==
    CASE stmt.op = "update_sensor" ->
            IF stmt.row.sensor_id \in DOMAIN st.sensors
            THEN [st EXCEPT !.sensors[stmt.row.sensor_id] =
                     [@ EXCEPT !.last_reading = stmt.row.value,
                               !.status = stmt.row.status,
                               !.last_reading_time = stmt.row.timestamp,
                               !.min_warning = <<>>]]
            ELSE st
      [] stmt.op = "insert_measurement" -> [st EXCEPT !.measurements = <<stmt.row>>]
      [] OTHER -> [st EXCEPT !.alerts = <<stmt.row>>]

\* one statement's effect on the tables
ApplyStmt(st, stmt) ==
    CASE stmt.op = "update_sensor" ->
            IF stmt.row.sensor_id \in DOMAIN st.sensors
            THEN [st EXCEPT !.sensors[stmt.row.sensor_id] =
                     [@ EXCEPT !.last_reading = stmt.row.value,
                               !.status = stmt.row.status,
                               !.last_reading_time = stmt.row.timestamp]]
            ELSE st
      [] stmt.op = "insert_measurement" ->
            [st EXCEPT !.measurements = Append(@, stmt.row)]
      [] OTHER -> [st EXCEPT !.alerts = Append(@, stmt.row)]

RECURSIVE ApplyAll(_, _)
ApplyAll(st, stmts) ==
    IF stmts = <<>> THEN st ELSE ApplyAll(ApplyStmt(st, Head(stmts)), Tail(stmts))

\* a connection in autocommit mode: each statement is committed as it executes
ExecuteAutocommit(st, pending, stmt) == [store |-> ApplyStmt(st, stmt), pending |-> pending]

\* cursor.execute of an UPDATE or INSERT on a connection in sqlite3's default
\* mode: the statement joins the connection's open transaction, and the
\* committed tables are untouched
Execute(st, pending, stmt) == [store |-> st, pending |-> Append(pending, stmt)]

\* conn.commit()
Commit(st, pending) == ApplyAll(st, pending)

\* another connection can write only while no connection holds an open write
\* transaction
WriteLocked == \E g \in Gens : wconn[g] # <<>>

(* -------------------- DataLogger: the calling thread -------------------- *)

\* writers created so far
Starts == Cardinality({g \in Gens : wpc[g] # "unborn"})

\* a start_logging() without its test
NeverRunning == FALSE

\* start_logging's test `if not self.is_running`, negated
AlreadyRunning == is_running

\* start_logging(), up to the call of _start_sensor_threads: a no-op when the
\* logger runs, else the flag is set and the writer thread created and started
StartLogging ==
    /\ cpc = "idle"
    /\ IF AlreadyRunning
       THEN /\ last_call' = "start_noop"
            /\ UNCHANGED <<loggerVars, store, writerVars, workerVars, cpc, loaded,
                           stop_mark, historyVars, clockVars>>
       ELSE /\ Starts < MaxStarts
            /\ is_running' = TRUE
            /\ db_thread' = Starts + 1
            /\ wpc' = [wpc EXCEPT ![Starts + 1] = "loop"]
            /\ cpc' = "load"
            /\ last_call' = "start"
            /\ UNCHANGED <<threads, data_queue, last_values, value_lock, db_lock, store,
                           wdata, wconn, wpos, workerVars, loaded, stop_mark,
                           historyVars, clockVars>>

\* a fetchone() for the fetchall(): the first row alone
FetchOne(sensors) ==
    IF DOMAIN sensors = {} THEN {}
    ELSE {CHOOSE s \in DOMAIN sensors : \A r \in DOMAIN sensors : s <= r}

\* cursor.fetchall() on the SELECT without WHERE: every row of the table
FetchAll(sensors) == DOMAIN sensors

\* _start_sensor_threads(), the `with self.db_lock` block: the sensor rows are read
LoadSensors ==
    /\ cpc = "load"
    /\ db_lock = 0
    /\ loaded' = FetchAll(store.sensors)
    /\ cpc' = "launch"
    /\ UNCHANGED <<loggerVars, store, writerVars, workerVars, last_call, stop_mark,
                   historyVars, clockVars>>

\* a handler that prints and does not call stop_logging(): start_logging() returns
LoadFailureIgnored ==
    /\ cpc = "load"
    /\ db_lock = 0
    /\ cpc' = "idle"
    /\ UNCHANGED <<loggerVars, store, writerVars, workerVars, loaded, last_call,
                   stop_mark, historyVars, clockVars>>

\* _start_sensor_threads(): the read raises sqlite3.Error, the handler calls
\* stop_logging(), which clears the flag and goes on to join
LoadSensorsFails ==
    /\ cpc = "load"
    /\ db_lock = 0
    /\ is_running' = FALSE
    /\ stop_mark' = Len(enqueued)
    /\ cpc' = "join_db"
    /\ UNCHANGED <<db_thread, threads, data_queue, last_values, value_lock, db_lock,
                   store, writerVars, workerVars, loaded, last_call, historyVars,
                   clockVars>>

\* _start_sensor_threads(), the for loop: one started thread per fetched row,
\* kept in self.threads under the row's sensor_id; start_logging() returns
LaunchWorkers ==
    /\ cpc = "launch"
    /\ kpc' = [k \in Workers |->
                 IF k[1] = db_thread /\ k[2] \in loaded THEN "loop" ELSE kpc[k]]
    /\ kargs' = [k \in Workers |->
                   IF k[1] = db_thread /\ k[2] \in loaded
                   THEN [type |-> store.sensors[k[2]].type,
                         min_warning |-> store.sensors[k[2]].min_warning,
                         max_warning |-> store.sensors[k[2]].max_warning,
                         min_critical |-> store.sensors[k[2]].min_critical,
                         max_critical |-> store.sensors[k[2]].max_critical]
                   ELSE kargs[k]]
    /\ threads' = [s \in SensorIds |-> IF s \in loaded THEN db_thread ELSE threads[s]]
    /\ loaded' = {}
    /\ cpc' = "idle"
    /\ UNCHANGED <<is_running, db_thread, data_queue, last_values, value_lock, db_lock,
                   store, writerVars, kvalue, last_call, stop_mark, historyVars,
                   clockVars>>

\* stop_logging(): the flag is cleared
StopLogging ==
    /\ cpc = "idle"
    /\ is_running' = FALSE
    /\ stop_mark' = Len(enqueued)
    /\ cpc' = "join_db"
    /\ last_call' = "stop"
    /\ UNCHANGED <<db_thread, threads, data_queue, last_values, value_lock, db_lock,
                   store, writerVars, workerVars, loaded, historyVars, clockVars>>

\* a stop_logging() that does not join the writer
WriterNotAwaited == TRUE

\* self.db_thread.join() has returned, or there is no db_thread attribute
WriterJoined == IF db_thread = 0 THEN TRUE ELSE wpc[db_thread] = "done"

\* a stop_logging() that does not join the workers
WorkersNotAwaited == TRUE

\* every thread.join() of the loop over self.threads.values() has returned
WorkersJoined ==
    \A s \in SensorIds :
        IF threads[s] = 0 THEN TRUE ELSE kpc[<<threads[s], s>>] = "done"

JoinWriter ==
    /\ cpc = "join_db"
    /\ WriterJoined
    /\ cpc' = "join_workers"
    /\ UNCHANGED <<loggerVars, store, writerVars, workerVars, loaded, last_call,
                   stop_mark, historyVars, clockVars>>

\* the joins are over: stop_logging() returns
JoinWorkers ==
    /\ cpc = "join_workers"
    /\ WorkersJoined
    /\ cpc' = "idle"
    /\ stop_mark' = 0
    /\ UNCHANGED <<loggerVars, store, writerVars, workerVars, loaded, last_call,
                   historyVars, clockVars>>

(* ------------------- DataLogger._sensor_data_loop ---------------------- *)

\* a worker that loops `while True`
WorkerLoopsForever == TRUE

\* the test of the worker's `while self.is_running`
WorkerLoopTest == is_running

\* `while self.is_running` holds: the worker begins an iteration
WorkerContinue(k) ==
    /\ kpc[k] = "loop"
    /\ WorkerLoopTest
    /\ Len(generated[k[2]]) < MaxReadings
    /\ next_sample[k[2]] <= MaxTime
    /\ kpc' = [kpc EXCEPT ![k] = "generate"]
    /\ UNCHANGED <<loggerVars, store, writerVars, kvalue, kargs, callerVars,
                   historyVars, clockVars>>

\* `while self.is_running` fails: the thread ends
WorkerExit(k) ==
    /\ kpc[k] = "loop"
    /\ ~WorkerLoopTest
    /\ kpc' = [kpc EXCEPT ![k] = "done"]
    /\ UNCHANGED <<loggerVars, store, writerVars, kvalue, kargs, callerVars,
                   historyVars, clockVars>>

\* a `with` that does not wait for the lock
ValueLockIgnored == TRUE

\* self.value_lock can be acquired: no thread holds it
ValueLockFree == value_lock = <<>>

\* _generate_value: `with self.value_lock` is entered
WorkerAcquire(k) ==
    /\ kpc[k] = "generate"
    /\ ValueLockFree
    /\ value_lock' = k
    /\ kpc' = [kpc EXCEPT ![k] = "locked"]
    /\ UNCHANGED <<is_running, db_thread, threads, data_queue, last_values, db_lock,
                   store, writerVars, kvalue, kargs, callerVars, historyVars, clockVars>>

\* a `with` block that is left with the lock still held
ValueLockKept == value_lock

\* the `with self.value_lock` block is left: the lock is free
ValueLockReleased == <<>>

\* a generator that seeds the walk on every call
AlwaysUnseeded(sensor_id) == TRUE

\* `sensor_id not in self.last_values`
Unseeded(sensor_id) == IsNone(last_values[sensor_id])

\* _generate_value, under the lock: seed, draw, clamp, round, store, return
WorkerGenerate(k) ==
    /\ kpc[k] = "locked"
    /\ \E seed \in (IF Unseeded(k[2])
                    THEN _get_initial_value(kargs[k].type)
                    ELSE {last_values[k[2]][1]}) :
         \E change \in Changes(_get_value_ranges(kargs[k].type, kargs[k].min_warning,
                                  kargs[k].max_warning, kargs[k].min_critical,
                                  kargs[k].max_critical)[1]) :
            LET new_value == NewValue(seed, change, kargs[k].type, kargs[k].min_warning,
                                      kargs[k].max_warning, kargs[k].min_critical,
                                      kargs[k].max_critical)
            IN  /\ last_values' = [last_values EXCEPT ![k[2]] = Some(new_value)]
                /\ kvalue' = [kvalue EXCEPT ![k] = new_value]
                /\ generated' = [generated EXCEPT ![k[2]] = Append(@, new_value)]
    /\ value_lock' = ValueLockReleased
    /\ kpc' = [kpc EXCEPT ![k] = "put"]
    /\ UNCHANGED <<is_running, db_thread, threads, data_queue, db_lock, store,
                   writerVars, kargs, callerVars, enqueued, dequeued, outcome, checks,
                   clockVars>>

\* a Reading whose status is not computed from its value
ReadingUnclassified(k, t) ==
    [sensor_id |-> k[2], value |-> kvalue[k], status |-> 0, timestamp |-> t]

\* the Reading the worker builds: the status of its value, the clock's second
Reading(k, t) ==
    [sensor_id |-> k[2], value |-> kvalue[k],
     status |-> _determine_status(kvalue[k], kargs[k].min_warning, kargs[k].max_warning,
                                  kargs[k].min_critical, kargs[k].max_critical),
     timestamp |-> t]

\* self.data_queue.put(item)
Put(queue, item) == Append(queue, item)

\* the status is determined, the Reading is put on the queue at second t, and the
\* worker sleeps its sampling interval
WorkerPut(k) ==
    /\ kpc[k] = "put"
    /\ \E t \in Max2(now, next_sample[k[2]]) .. MaxTime :
         /\ data_queue' = Put(data_queue, Reading(k, t))
         /\ enqueued' = Append(enqueued, Reading(k, t))
         /\ now' = t
         /\ next_sample' = [next_sample EXCEPT ![k[2]] = t + SleepSeconds(kargs[k].type)]
    /\ kpc' = [kpc EXCEPT ![k] = "loop"]
    /\ UNCHANGED <<is_running, db_thread, threads, last_values, value_lock, db_lock,
                   store, writerVars, kvalue, kargs, callerVars, generated, dequeued,
                   outcome, checks>>

\* a worker loop without its try/except: the exception ends the thread
WorkerErrorEndsThread == "done"

\* where the worker is after its `except Exception` handler: back at the loop test
OnWorkerError == "loop"

\* an exception that takes the sensor's entry out of the table
LeftByErrorCleared(k) == {None}

\* the last-value entry an exception inside _generate_value leaves: the entry as
\* it was, or the seed when the exception came after the seeding
LeftByError(k) ==
    IF IsNone(last_values[k[2]])
    THEN {None} \cup {Some(v) : v \in _get_initial_value(kargs[k].type)}
    ELSE {last_values[k[2]]}

\* an exception is raised in the iteration, inside _generate_value (the `with`
\* releases the lock) or after it, in the classification or the put: the handler
\* prints, sleeps one second, and the loop goes on
WorkerFails(k) ==
    /\ kpc[k] \in {"locked", "put"}
    /\ Max2(now, next_sample[k[2]]) + 1 <= MaxTime + 1
    /\ IF kpc[k] = "locked"
       THEN /\ value_lock' = <<>>
            /\ last_values' \in {[last_values EXCEPT ![k[2]] = e] : e \in LeftByError(k)}
       ELSE UNCHANGED <<value_lock, last_values>>
    /\ next_sample' = [next_sample EXCEPT ![k[2]] = Max2(now, @) + 1]
    /\ kpc' = [kpc EXCEPT ![k] = OnWorkerError]
    /\ UNCHANGED <<is_running, db_thread, threads, data_queue, db_lock, store,
                   writerVars, kvalue, kargs, callerVars, historyVars, now>>

(* ------------------ DataLogger._database_writer_loop ------------------- *)

\* a LIFO queue: the newest item leaves
GetNewest(queue) ==
    [item |-> queue[Len(queue)], rest |-> SubSeq(queue, 1, Len(queue) - 1)]

\* a get that leaves the item in the queue
GetKeeps(queue) == [item |-> Head(queue), rest |-> queue]

\* self.data_queue.get() on a queue that holds an item: the oldest one leaves
Get(queue) == [item |-> Head(queue), rest |-> Tail(queue)]

\* the statements of the open transaction are what a failure leaves behind in
\* `conn`: they are rolled back when `conn` is dropped
Rollback(pending) == <<>>

\* a writer that loops while the queue holds an item
WriterLoopsOnQueue == data_queue # <<>>

\* the test of the writer's `while self.is_running`
WriterLoopTest == is_running

\* `while self.is_running` holds
WriterContinue(g) ==
    /\ wpc[g] = "loop"
    /\ WriterLoopTest
    /\ wpc' = [wpc EXCEPT ![g] = "get"]
    /\ UNCHANGED <<loggerVars, store, wdata, wconn, wpos, workerVars, callerVars,
                   historyVars, clockVars>>

\* `while self.is_running` fails: the thread ends, whatever the queue holds; its
\* last connection is dropped with it
WriterExit(g) ==
    /\ wpc[g] = "loop"
    /\ ~WriterLoopTest
    /\ wpc' = [wpc EXCEPT ![g] = "done"]
    /\ wconn' = [wconn EXCEPT ![g] = Rollback(@)]
    /\ UNCHANGED <<loggerVars, store, wdata, wpos, workerVars, callerVars, historyVars,
                   clockVars>>

\* data = self.data_queue.get(timeout=1) returns a Reading
WriterGet(g) ==
    /\ wpc[g] = "get"
    /\ data_queue # <<>>
    /\ wdata' = [wdata EXCEPT ![g] = Get(data_queue).item]
    /\ data_queue' = Get(data_queue).rest
    /\ dequeued' = Append(dequeued, Get(data_queue).item)
    /\ outcome' = Append(outcome, "inflight")
    /\ wpos' = [wpos EXCEPT ![g] = Len(dequeued) + 1]
    /\ wpc' = [wpc EXCEPT ![g] = "lock"]
    /\ UNCHANGED <<is_running, db_thread, threads, last_values, value_lock, db_lock,
                   store, wconn, workerVars, callerVars, generated, enqueued, checks,
                   clockVars>>

\* the get times out on the empty queue: queue.Empty, `continue`
WriterTimeout(g) ==
    /\ wpc[g] = "get"
    /\ data_queue = <<>>
    /\ wpc' = [wpc EXCEPT ![g] = "loop"]
    /\ UNCHANGED <<loggerVars, store, wdata, wconn, wpos, workerVars, callerVars,
                   historyVars, clockVars>>

\* `with self.db_lock` is entered
WriterLock(g) ==
    /\ wpc[g] = "lock"
    /\ db_lock = 0
    /\ db_lock' = g
    /\ wpc' = [wpc EXCEPT ![g] = "connect"]
    /\ UNCHANGED <<is_running, db_thread, threads, data_queue, last_values, value_lock,
                   store, wdata, wconn, wpos, workerVars, callerVars, historyVars,
                   clockVars>>

\* a writer that inserts the measurement twice
StatementsTwice(st, data) ==
    <<UpdateSensor(data), InsertMeasurement(data), InsertMeasurement(data)>>

\* a writer that makes an alert for every Reading
StatementsAlertAlways(st, data) ==
    <<UpdateSensor(data), InsertMeasurement(data),
      InsertAlert(data.sensor_id, data.timestamp, data.value, Severity(data.status),
                  _generate_alert_description(st.sensors[data.sensor_id].type,
                                              data.value, Severity(data.status)))>>

\* a writer that makes an alert for a critical status only
StatementsCriticalOnly(st, data) ==
    <<UpdateSensor(data), InsertMeasurement(data)>>
    \o (IF data.status = 2
        THEN <<InsertAlert(data.sensor_id, data.timestamp, data.value, "critical",
                           _generate_alert_description(st.sensors[data.sensor_id].type,
                                                       data.value, "critical"))>>
        ELSE <<>>)

\* the statements the writer executes for `data`, in order: the UPDATE of the
\* sensor row, the INSERT of the measurement and, for a status other than 0, the
\* INSERT of the alert, whose description takes the type looked up in the row
Statements(st, data) ==
    <<UpdateSensor(data), InsertMeasurement(data)>>
    \o (IF data.status # 0
        THEN <<InsertAlert(data.sensor_id, data.timestamp, data.value,
                           Severity(data.status),
                           _generate_alert_description(st.sensors[data.sensor_id].type,
                                                       data.value,
                                                       Severity(data.status)))>>
        ELSE <<>>)

\* cursor.execute of each statement in turn, from the state [store, pending]
RECURSIVE ExecuteAll(_, _)
ExecuteAll(sp, stmts) ==
    IF stmts = <<>> THEN sp
    ELSE ExecuteAll(Execute(sp.store, sp.pending, Head(stmts)), Tail(stmts))

\* conn = sqlite3.connect(...), which drops the connection `conn` held before,
\* and the first n statements executed on it
Transact(g, n) ==
    ExecuteAll([store |-> store, pending |-> Rollback(wconn[g])],
               SubSeq(Statements(store, wdata[g]), 1, n))

\* connect and every cursor.execute succeed: the writer is about to commit
WriterExecutes(g) ==
    /\ wpc[g] = "connect"
    /\ store' = Transact(g, Len(Statements(store, wdata[g]))).store
    /\ wconn' = [wconn EXCEPT ![g] = Transact(g, Len(Statements(store, wdata[g]))).pending]
    /\ wpc' = [wpc EXCEPT ![g] = "commit"]
    /\ UNCHANGED <<loggerVars, wdata, wpos, workerVars, callerVars, historyVars,
                   clockVars>>

\* conn.commit(); conn.close(); the with block is left
WriterCommit(g) ==
    /\ wpc[g] = "commit"
    /\ store' = Commit(store, wconn[g])
    /\ wconn' = [wconn EXCEPT ![g] = <<>>]
    /\ db_lock' = 0
    /\ outcome' = [outcome EXCEPT ![wpos[g]] = "persisted"]
    /\ wpc' = [wpc EXCEPT ![g] = "loop"]
    /\ UNCHANGED <<is_running, db_thread, threads, data_queue, last_values, value_lock,
                   wdata, wpos, workerVars, callerVars, generated, enqueued, dequeued,
                   checks, clockVars>>

\* a handler that puts the Reading back on the queue
Requeue(queue, data) == Append(queue, data)

\* what the writer's `except Exception` handler does with the Reading it failed
\* to persist: nothing, the queue is as it was
OnWriteError(queue, data) == queue

FailuresLeft == Cardinality({i \in DOMAIN outcome : outcome[i] = "failed"}) < MaxFailures

\* a writer that takes the lock with acquire() and releases it after the
\* commit only: an exception leaves the lock held
WriterHandlesHoldingLock(g) ==
    /\ db_lock' = db_lock
    /\ data_queue' = data_queue
    /\ outcome' = [outcome EXCEPT ![wpos[g]] = "failed"]
    /\ wpc' = [wpc EXCEPT ![g] = "loop"]
    /\ UNCHANGED <<is_running, db_thread, threads, last_values, value_lock, wdata, wpos,
                   workerVars, callerVars, generated, enqueued, dequeued, checks,
                   clockVars>>

\* the handler of `except Exception`: the with block has released the lock, the
\* handler prints and sleeps, the loop goes on
WriterHandles(g) ==
    /\ db_lock' = 0
    /\ data_queue' = OnWriteError(data_queue, wdata[g])
    /\ outcome' = [outcome EXCEPT ![wpos[g]] = "failed"]
    /\ wpc' = [wpc EXCEPT ![g] = "loop"]
    /\ UNCHANGED <<is_running, db_thread, threads, last_values, value_lock, wdata, wpos,
                   workerVars, callerVars, generated, enqueued, dequeued, checks,
                   clockVars>>

\* a storage operation raises before the commit: after n statements were
\* executed, the next one does (or, for n = 0, connect or the UPDATE does)
WriterExecuteFails(g) ==
    /\ wpc[g] = "connect"
    /\ FailuresLeft
    /\ \E n \in 0 .. Len(Statements(store, wdata[g])) - 1 :
         /\ store' = Transact(g, n).store
         /\ wconn' = [wconn EXCEPT ![g] = Transact(g, n).pending]
    /\ WriterHandles(g)

\* conn.commit() raises
WriterCommitFails(g) ==
    /\ wpc[g] = "commit"
    /\ FailuresLeft
    /\ UNCHANGED <<store, wconn>>
    /\ WriterHandles(g)

(* --------------------- ErrorManager.check_value ------------------------ *)

\* the inputs of check_value the model takes: an id with no row and the
\* temperature row's id, a value at that row's min_warning and one between its
\* warning thresholds
CheckIds == {0, 1}

CheckValues == {20 * Unit, 25 * Unit}

\* a check whose warning tests do not depend on the critical ones
CheckAlertsEach(value, min_warning, max_warning, min_critical, max_critical) ==
    (IF ~IsNone(min_critical) /\ value <= min_critical[1]
     THEN <<[severity |-> "critical",
             description |-> <<"Value ", value, " is below critical threshold ",
                               min_critical[1]>>]>>
     ELSE IF ~IsNone(max_critical) /\ value >= max_critical[1]
     THEN <<[severity |-> "critical",
             description |-> <<"Value ", value, " is above critical threshold ",
                               max_critical[1]>>]>>
     ELSE <<>>)
    \o (IF ~IsNone(min_warning) /\ value <= min_warning[1]
        THEN <<[severity |-> "warning",
                description |-> <<"Value ", value, " is below warning threshold ",
                                  min_warning[1]>>]>>
        ELSE IF ~IsNone(max_warning) /\ value >= max_warning[1]
        THEN <<[severity |-> "warning",
                description |-> <<"Value ", value, " is above warning threshold ",
                                  max_warning[1]>>]>>
        ELSE <<>>)

\* the alert check_value creates for a row's thresholds, as a sequence of at
\* most one <<severity, description>>
CheckAlerts(value, min_warning, max_warning, min_critical, max_critical) ==
    IF ~IsNone(min_critical) /\ value <= min_critical[1]
    THEN <<[severity |-> "critical",
            description |-> <<"Value ", value, " is below critical threshold ",
                              min_critical[1]>>]>>
    ELSE IF ~IsNone(max_critical) /\ value >= max_critical[1]
    THEN <<[severity |-> "critical",
            description |-> <<"Value ", value, " is above critical threshold ",
                              max_critical[1]>>]>>
    ELSE IF ~IsNone(min_warning) /\ value <= min_warning[1]
    THEN <<[severity |-> "warning",
            description |-> <<"Value ", value, " is below warning threshold ",
                              min_warning[1]>>]>>
    ELSE IF ~IsNone(max_warning) /\ value >= max_warning[1]
    THEN <<[severity |-> "warning",
            description |-> <<"Value ", value, " is above warning threshold ",
                              max_warning[1]>>]>>
    ELSE <<>>

\* _create_alert: INSERT INTO alerts and commit, on ErrorManager's own connection
_create_alert(st, sensor_id, value, timestamp, severity, description) ==
    ApplyStmt(st, InsertAlert(sensor_id, timestamp, value, severity, description))

\* check_value(sensor_id, value, timestamp) with the clock's second as timestamp;
\* the insert waits for the writer's open transaction
CheckValue ==
    /\ checks < MaxChecks
    /\ ~WriteLocked
    /\ checks' = checks + 1
    /\ \E sensor_id \in CheckIds, value \in CheckValues :
         LET found == IF sensor_id \in DOMAIN store.sensors
                      THEN CheckAlerts(value, store.sensors[sensor_id].min_warning,
                                       store.sensors[sensor_id].max_warning,
                                       store.sensors[sensor_id].min_critical,
                                       store.sensors[sensor_id].max_critical)
                      ELSE <<>>
         IN  store' = IF found = <<>> THEN store
                      ELSE _create_alert(store, sensor_id, value, now,
                                         found[1].severity, found[1].description)
    /\ UNCHANGED <<loggerVars, writerVars, workerVars, callerVars, generated, enqueued,
                   dequeued, outcome, clockVars>>

(* --------------------------- specifications ---------------------------- *)

Caller ==
    \/ StartLogging
    \/ LoadSensors
    \/ LoadSensorsFails
    \/ LaunchWorkers
    \/ StopLogging
    \/ JoinWriter
    \/ JoinWorkers

WorkerRuns(k) ==
    \/ WorkerContinue(k)
    \/ WorkerExit(k)
    \/ WorkerAcquire(k)
    \/ WorkerGenerate(k)
    \/ WorkerPut(k)

WriterRuns(g) ==
    \/ WriterContinue(g)
    \/ WriterExit(g)
    \/ WriterGet(g)
    \/ WriterTimeout(g)
    \/ WriterLock(g)
    \/ WriterExecutes(g)
    \/ WriterCommit(g)

WriterFails(g) ==
    \/ WriterExecuteFails(g)
    \/ WriterCommitFails(g)

Next ==
    \/ Caller
    \/ \E k \in Workers : WorkerRuns(k)
    \/ \E g \in Gens : WriterRuns(g)
    \/ \E g \in Gens : WriterFails(g)

\* the logger alone
Spec == Init /\ [][Next]_vars

\* the logger under fair scheduling: a thread that can take a step of its loop
\* takes it, and a join that can return returns; calls of start_logging and
\* stop_logging, and storage failures, are up to the environment
Fairness ==
    /\ \A k \in Workers : WF_vars(WorkerRuns(k))
    /\ \A g \in Gens : WF_vars(WriterRuns(g))
    /\ WF_vars(JoinWriter \/ JoinWorkers \/ LoadSensors \/ LaunchWorkers)

FairSpec == Spec /\ Fairness

\* the logger, and ErrorManager.check_value run against the same database
StoreNext == Next \/ CheckValue

StoreSpec == Init /\ [][StoreNext]_vars

(* ------------------------ what the claims read ------------------------- *)

RECURSIVE IsSubseq(_, _)
IsSubseq(a, b) ==
    IF a = <<>> THEN TRUE
    ELSE IF b = <<>> THEN FALSE
    ELSE IF Head(a) = Head(b) THEN IsSubseq(Tail(a), Tail(b))
    ELSE IsSubseq(a, Tail(b))

IsPrefix(a, b) == Len(a) <= Len(b) /\ SubSeq(b, 1, Len(a)) = a

\* the records of one sensor, in order
Of(records, sensor_id) == SelectSeq(records, LAMBDA r : r.sensor_id = sensor_id)

ValuesOf(records) == [i \in DOMAIN records |-> records[i].value]

NonNormal(records) == SelectSeq(records, LAMBDA r : r.status # 0)

\* an alert row that carries the description the writer generates
IsWriterAlert(a) ==
    /\ a.sensor_id \in DOMAIN store.sensors
    /\ a.description =
         _generate_alert_description(store.sensors[a.sensor_id].type, a.value, a.severity)

WriterAlerts == SelectSeq(store.alerts, IsWriterAlert)

SameKey(a, b) ==
    /\ a.sensor_id = b.sensor_id
    /\ a.timestamp = b.timestamp
    /\ a.value = b.value

\* the dequeued Readings whose write was committed, in order
RECURSIVE Kept(_)
Kept(n) ==
    IF n = 0 THEN <<>>
    ELSE IF outcome[n] = "persisted" THEN Append(Kept(n - 1), dequeued[n])
    ELSE Kept(n - 1)

CountOutcome(o) == Cardinality({i \in DOMAIN outcome : outcome[i] = o})

Terminated(pc) == pc \in {"unborn", "done"}

AllTerminated ==
    /\ \A g \in Gens : Terminated(wpc[g])
    /\ \A k \in Workers : Terminated(kpc[k])

StopReturned == cpc = "idle" /\ last_call = "stop"

\* the writer's step out of its loop
WriterExits(g) == wpc[g] = "loop" /\ wpc'[g] = "done"

(* -------------------------------- C1 ----------------------------------- *)

\* C1: the three persisted effects of a Reading are in the store together or not
\* at all. In every reachable state, also after a storage operation has raised
\* at any point before the commit: the alerts the writer made are, one for one
\* and in order, the alerts of the measurements with a status other than 0, and
\* each sensor row carries the value, status and timestamp of the sensor's last
\* measurement (the row setup wrote, while the sensor has none).
C1_EffectsTogether ==
    /\ Len(WriterAlerts) = Len(NonNormal(store.measurements))
    /\ \A i \in DOMAIN WriterAlerts :
         /\ SameKey(WriterAlerts[i], NonNormal(store.measurements)[i])
         /\ WriterAlerts[i].severity = Severity(NonNormal(store.measurements)[i].status)
    /\ \A s \in SensorIds :
         LET ms == Of(store.measurements, s)
         IN  IF ms = <<>> THEN store.sensors[s] = InitialSensorRow(s)
             ELSE /\ store.sensors[s].last_reading = ms[Len(ms)].value
                  /\ store.sensors[s].status = ms[Len(ms)].status
                  /\ store.sensors[s].last_reading_time = ms[Len(ms)].timestamp

\* a write failed after statements had been executed on its connection, while
\* another Reading's three effects, an alert among them, are committed
C1_Witness ==
    /\ CountOutcome("failed") > 0
    /\ \E g \in Gens : wpc[g] = "loop" /\ Len(wconn[g]) >= 2
    /\ store.alerts # <<>>

(* -------------------------------- C2 ----------------------------------- *)

\* C2, as claimed: when the writer that stop_logging() joins has exited, every
\* Reading enqueued before the flag was cleared has been dequeued; and the
\* writer leaves its loop only with the flag false and the queue empty.
C2_DrainedBeforeExit ==
    /\ [](cpc \in {"join_db", "join_workers"} /\ db_thread # 0
            => (wpc[db_thread] = "done" => Len(dequeued) >= stop_mark))
    /\ [][\A g \in Gens : WriterExits(g) => ~is_running /\ data_queue = <<>>]_vars

\* C2, amended: the writer leaves its loop only when it reads the flag false,
\* whatever the queue holds; a Reading enqueued before the flag was cleared has
\* then been dequeued or is still in the queue, in its place: none is discarded.
C2_ExitOnFlagAlone ==
    /\ [][\A g \in Gens : WriterExits(g) => ~is_running]_vars
    /\ [](stop_mark <= Len(enqueued)
          /\ SubSeq(enqueued, 1, stop_mark) = SubSeq(dequeued \o data_queue, 1, stop_mark))

\* the joined writer has exited and a Reading enqueued before the flag was
\* cleared is still in the queue
C2_Witness ==
    /\ cpc \in {"join_db", "join_workers"}
    /\ db_thread # 0
    /\ wpc[db_thread] = "done"
    /\ Len(dequeued) < stop_mark
    /\ data_queue # <<>>

(* -------------------------------- C3 ----------------------------------- *)

\* C3: when stop_logging() has returned (the caller is back with the flag
\* cleared, from its own call or from the one start_logging() makes when the
\* sensor rows cannot be read), no writer and no worker thread is in its loop:
\* every thread that was created is done.
C3_NoThreadSurvivesStop == cpc = "idle" /\ ~is_running => AllTerminated

\* stop_logging() has returned after a start that launched the workers, which
\* enqueued Readings
C3_Witness ==
    /\ StopReturned
    /\ \A s \in SensorIds : threads[s] # 0
    /\ enqueued # <<>>

(* -------------------------------- C4 ----------------------------------- *)

\* C4: under fair scheduling a call of stop_logging() returns: once the flag is
\* cleared and the caller joins, the caller is eventually back from the call.
C4_StopReturns == (cpc \in {"join_db", "join_workers"}) ~> (cpc = "idle")

\* the caller is joining while the writer is in the middle of a write and a
\* worker in the middle of an iteration
C4_Witness ==
    /\ cpc = "join_db"
    /\ last_call = "stop"
    /\ db_thread # 0
    /\ wpc[db_thread] = "commit"
    /\ \E k \in Workers : kpc[k] = "put"

(* -------------------------------- C5 ----------------------------------- *)

\* C5: start_logging() called while the logger runs starts no writer and no
\* worker and leaves the flag, the thread table, the queue and the last-value
\* table as they are.
C5_StartIsIdempotent ==
    [][StartLogging /\ is_running
         => UNCHANGED <<is_running, db_thread, wpc, threads, kpc, data_queue,
                        last_values>>]_vars

\* start_logging() was called on a running logger, whose threads are at work
C5_Witness ==
    /\ last_call = "start_noop"
    /\ is_running
    /\ enqueued # <<>>

(* -------------------------------- C6 ----------------------------------- *)

\* C6: per sensor, the writer dequeues the Readings in the order the worker
\* generated them, and the measurements persisted for the sensor are an
\* order-preserving subsequence of what was generated.
C6_PerSensorOrder ==
    \A s \in SensorIds :
        /\ IsPrefix(ValuesOf(Of(enqueued, s)), generated[s])
        /\ IsPrefix(Of(dequeued, s), Of(enqueued, s))
        /\ IsSubseq(Of(store.measurements, s), Of(dequeued, s))
        /\ IsSubseq(ValuesOf(Of(store.measurements, s)), generated[s])

\* two different Readings of one sensor are persisted, with a Reading of the
\* other sensor between them
C6_Witness ==
    \E i, j, l \in DOMAIN store.measurements :
        /\ i < j /\ j < l
        /\ store.measurements[i].sensor_id = store.measurements[l].sensor_id
        /\ store.measurements[i] # store.measurements[l]
        /\ store.measurements[j].sensor_id # store.measurements[i].sensor_id

(* -------------------------------- C7 ----------------------------------- *)

\* the most Readings a run enqueues
MaxEnqueued == MaxReadings * Cardinality(SensorIds)

\* C7, as claimed: every Reading put on the queue is dequeued exactly once:
\* what was enqueued is what was dequeued followed by what is queued, and the
\* n-th Reading enqueued is eventually the n-th dequeued (the number enqueued
\* never decreases: again and again, the n-th Reading is not enqueued yet or is
\* dequeued).
C7_DequeuedExactlyOnce ==
    /\ [](enqueued = dequeued \o data_queue)
    /\ \A n \in 1 .. MaxEnqueued : []<>(Len(enqueued) < n \/ Len(dequeued) >= n)

\* C7, amended: no Reading is dequeued twice, and a Reading put on the queue
\* is eventually dequeued unless the stop flag is cleared while it waits (it
\* then stays in the queue).
C7_DequeuedAtMostOnce ==
    /\ [](enqueued = dequeued \o data_queue)
    /\ \A n \in 1 .. MaxEnqueued :
         []<>(Len(enqueued) < n \/ Len(dequeued) >= n \/ ~is_running)

\* stop_logging() has returned, Readings were dequeued, and one is left queued
C7_Witness ==
    /\ StopReturned
    /\ dequeued # <<>>
    /\ data_queue # <<>>

(* -------------------------------- C8 ----------------------------------- *)

\* no Reading is between its dequeue and the end of its write
NoneInFlight == CountOutcome("inflight") = 0

\* C8, as claimed: with no write in flight, there are as many measurement
\* records as Readings dequeued.
C8_PersistedEqualsDequeued ==
    NoneInFlight => Len(store.measurements) = Len(dequeued)

\* C8, amended: the measurement records are, in order and once each, the
\* dequeued Readings whose write did not fail; with no write in flight their
\* number is the number dequeued less the number of failed writes.
C8_PersistedEqualsCommitted ==
    /\ store.measurements = Kept(Len(dequeued))
    /\ Len(outcome) = Len(dequeued)
    /\ Len(store.measurements) =
         Len(dequeued) - CountOutcome("failed") - CountOutcome("inflight")
    /\ CountOutcome("inflight") =
         Cardinality({g \in Gens : wpc[g] \in {"lock", "connect", "commit"}})

\* one write failed, another was committed, none is in flight
C8_Witness ==
    /\ NoneInFlight
    /\ CountOutcome("failed") > 0
    /\ CountOutcome("persisted") > 0

(* -------------------------------- C9 ----------------------------------- *)

\* C9, as claimed: a measurement with a status other than 0 has exactly one
\* alert record with its sensor_id, timestamp and value.
C9_ExactlyOneAlert ==
    \A i \in DOMAIN store.measurements :
        store.measurements[i].status # 0
        => Cardinality({j \in DOMAIN store.alerts :
                           SameKey(store.alerts[j], store.measurements[i])}) = 1

\* C9, amended: for a measurement with a status other than 0, the alerts the
\* writer made with its sensor_id, timestamp and value are as many as the
\* measurements with a status other than 0 that have them: at least one, and
\* more than one when Readings of the sensor share the second and the value.
C9_OneAlertPerMeasurement ==
    \A i \in DOMAIN store.measurements :
        store.measurements[i].status # 0
        => Cardinality({j \in DOMAIN store.alerts :
                           /\ IsWriterAlert(store.alerts[j])
                           /\ SameKey(store.alerts[j], store.measurements[i])})
           = Cardinality({l \in DOMAIN store.measurements :
                             /\ store.measurements[l].status # 0
                             /\ SameKey(store.measurements[l], store.measurements[i])})

\* two Readings of a sensor with the same second, value and status other than 0
\* are persisted, and so is a Reading with another key
C9_Witness ==
    /\ \E i, j \in DOMAIN store.measurements :
         /\ i < j
         /\ store.measurements[i] = store.measurements[j]
         /\ store.measurements[i].status # 0
    /\ \E i \in DOMAIN store.measurements : store.measurements[i].status = 1

(* -------------------------------- C10 ---------------------------------- *)

\* the status a severity stands for
StatusOfSeverity(severity) == IF severity = "critical" THEN 2 ELSE 1

\* the measurements an alert corresponds to
Matches(a) ==
    {i \in DOMAIN store.measurements :
        /\ SameKey(store.measurements[i], a)
        /\ store.measurements[i].status # 0
        /\ store.measurements[i].status = StatusOfSeverity(a.severity)}

\* C10, as claimed: every alert record in the store has exactly one
\* measurement with its sensor_id, timestamp and value and the status, other
\* than 0, of its severity.
C10_AlertHasOneMeasurement ==
    \A j \in DOMAIN store.alerts : Cardinality(Matches(store.alerts[j])) = 1

\* C10, amended: every alert record the writer made has a measurement with its
\* sensor_id, timestamp and value and the status of its severity (warning for
\* 1, critical for 2), and as many such measurements as there are such alerts;
\* an alert made by ErrorManager.check_value has no measurement of its own.
C10_WriterAlertHasMeasurement ==
    \A j \in DOMAIN store.alerts :
        IsWriterAlert(store.alerts[j])
        => /\ store.alerts[j].severity \in {"warning", "critical"}
           /\ Matches(store.alerts[j]) # {}
           /\ Cardinality(Matches(store.alerts[j]))
                = Cardinality({l \in DOMAIN store.alerts :
                                  /\ IsWriterAlert(store.alerts[l])
                                  /\ SameKey(store.alerts[l], store.alerts[j])
                                  /\ store.alerts[l].severity = store.alerts[j].severity})

\* the store holds a warning and a critical alert of the writer and an alert
\* check_value made
C10_Witness ==
    /\ \E j \in DOMAIN store.alerts :
         IsWriterAlert(store.alerts[j]) /\ store.alerts[j].severity = "warning"
    /\ \E j \in DOMAIN store.alerts :
         IsWriterAlert(store.alerts[j]) /\ store.alerts[j].severity = "critical"
    /\ \E j \in DOMAIN store.alerts : ~IsWriterAlert(store.alerts[j])

(* -------------------------------- C11 ---------------------------------- *)

Alive(pc) == ~Terminated(pc)

WritersAlive == {g \in Gens : Alive(wpc[g])}

\* C11: over the start_logging() and stop_logging() calls of the calling
\* thread, at most one writer thread is alive at any time, and the sensors,
\* measurements and alerts relations change only in a step of a writer, its
\* commit, in which no worker moves.
C11_SingleWriter ==
    /\ [](Cardinality(WritersAlive) <= 1)
    /\ [][store' # store
            => /\ \E g \in Gens : wpc[g] = "commit" /\ wpc'[g] = "loop"
               /\ UNCHANGED <<kpc, kvalue>>]_vars

\* the writer of a second start has persisted a Reading after the writer of the
\* first start ended, with the workers at work
C11_Witness ==
    /\ wpc[1] = "done"
    /\ Alive(wpc[2])
    /\ CountOutcome("persisted") > 0
    /\ wpos[2] > 0
    /\ outcome[wpos[2]] = "persisted"
    /\ \E k \in Workers : Alive(kpc[k])

(* -------------------------------- C12 ---------------------------------- *)

\* the workers inside the `with self.value_lock` block of _generate_value
InSection == {k \in Workers : kpc[k] = "locked"}

\* C12: at most one worker at a time is inside the section of _generate_value
\* that reads and stores the last value, it is the holder of value_lock, and
\* the last-value table changes only in the step in which the holder stores its
\* new value and leaves the section.
C12_LastValuesExclusive ==
    /\ [](/\ Cardinality(InSection) <= 1
          /\ \A k \in InSection : value_lock = k
          /\ value_lock # <<>> => value_lock \in InSection)
    /\ [][last_values' # last_values
            => /\ value_lock \in InSection
               /\ kpc'[value_lock] = "put"
               /\ value_lock' = <<>>
               /\ \A s \in SensorIds :
                    s # value_lock[2] => last_values'[s] = last_values[s]]_vars

\* a worker is inside the section while the other worker of the logger waits
\* to enter it
C12_Witness ==
    \E k, j \in Workers :
        /\ k # j
        /\ kpc[k] = "locked"
        /\ kpc[j] = "generate"
        /\ last_values[j[2]] # None

(* ------------------ the value generator on its own --------------------- *)

\* the worker whose _generate_value calls are followed
GenWorker == <<1, 1>>

AllTypes == KnownTypes \cup {"unknown"}

\* the min_warning and max_warning columns the generator is run with: unset, 0,
\* a bound with more decimals than one or two decimals keep (20.0449, 29.9551),
\* and bounds in the wrong order (30 above 29.9551, 20.0449 above 0)
MinWarnings == {None, Some(0), Some(200449), Some(30 * Unit)}

MaxWarnings == {None, Some(0), Some(299551), Some(40 * Unit)}

GenRows ==
    [type : AllTypes, min_warning : MinWarnings, max_warning : MaxWarnings,
     min_critical : {None}, max_critical : {None}]

\* the draws of random.uniform(-change_range, change_range) the generator is
\* run with: the two ends and the middle
Draws(change_range) == {0 - change_range, 0, change_range}

\* the logger as DataLogger.__init__ leaves it, on a database that holds the
\* given sensor rows, but for one worker, whose position, local value and
\* arguments are given
Constructed(sensors, pc, value, row) ==
    /\ is_running = FALSE
    /\ db_thread = 0
    /\ threads = [s \in SensorIds |-> 0]
    /\ data_queue = <<>>
    /\ last_values = [s \in SensorIds |-> None]
    /\ value_lock = <<>>
    /\ db_lock = 0
    /\ store = [sensors |-> sensors, measurements |-> <<>>, alerts |-> <<>>]
    /\ wpc = [g \in Gens |-> "unborn"]
    /\ wdata = [g \in Gens |-> NoReading]
    /\ wconn = [g \in Gens |-> <<>>]
    /\ kpc = [k \in Workers |-> IF k = GenWorker THEN pc ELSE "unborn"]
    /\ kvalue = [k \in Workers |-> IF k = GenWorker THEN value ELSE 0]
    /\ kargs = [k \in Workers |-> IF k = GenWorker THEN row ELSE NoArgs]
    /\ cpc = "idle"
    /\ loaded = {}
    /\ last_call = "none"
    /\ stop_mark = 0
    /\ now = 0
    /\ next_sample = [s \in SensorIds |-> 0]
    /\ generated = [s \in SensorIds |-> <<>>]
    /\ enqueued = <<>>
    /\ dequeued = <<>>
    /\ outcome = <<>>
    /\ wpos = [g \in Gens |-> 0]
    /\ checks = 0

\* the sensor rows initialize_sensors() leaves
SetupRows == [s \in SensorIds |-> InitialSensorRow(s)]

\* a logger whose worker for sensor 1 runs with any of the rows
GeneratorInit == \E row \in GenRows : Constructed(SetupRows, "unborn", 0, row)

\* one call of _generate_value, from the lock to the return
GenerateValue(k) ==
    /\ Len(generated[k[2]]) < MaxCalls
    /\ \E seed \in (IF IsNone(last_values[k[2]])
                    THEN _get_initial_value(kargs[k].type)
                    ELSE {last_values[k[2]][1]}) :
         \E change \in Draws(_get_value_ranges(kargs[k].type, kargs[k].min_warning,
                                kargs[k].max_warning, kargs[k].min_critical,
                                kargs[k].max_critical)[1]) :
            LET new_value == NewValue(seed, change, kargs[k].type, kargs[k].min_warning,
                                      kargs[k].max_warning, kargs[k].min_critical,
                                      kargs[k].max_critical)
            IN  /\ last_values' = [last_values EXCEPT ![k[2]] = Some(new_value)]
                /\ kvalue' = [kvalue EXCEPT ![k] = new_value]
                /\ generated' = [generated EXCEPT ![k[2]] = Append(@, new_value)]
    /\ UNCHANGED <<is_running, db_thread, threads, data_queue, value_lock, db_lock, store,
                   writerVars, kpc, kargs, callerVars, enqueued, dequeued, outcome, checks,
                   clockVars>>

GeneratorNext == GenerateValue(GenWorker)

GeneratorSpec == GeneratorInit /\ [][GeneratorNext]_vars

\* the fallback bounds of a type: the literals of _get_value_ranges
FallbackMin(sensor_type) ==
    CASE sensor_type = "temperature" -> 15 * Unit
      [] sensor_type = "humidity" -> 20 * Unit
      [] sensor_type = "air_quality" -> 400 * Unit
      [] sensor_type = "sound" -> 20 * Unit
      [] sensor_type = "tampering" -> 1000
      [] sensor_type = "light" -> 300 * Unit
      [] OTHER -> 0

FallbackMax(sensor_type) ==
    CASE sensor_type = "temperature" -> 35 * Unit
      [] sensor_type = "humidity" -> 80 * Unit
      [] sensor_type = "air_quality" -> 1500 * Unit
      [] sensor_type = "smoke" -> 100 * Unit
      [] sensor_type = "gas" -> 200 * Unit
      [] sensor_type = "sound" -> 80 * Unit
      [] sensor_type = "tampering" -> 4000
      [] sensor_type = "water_leak" -> 1 * Unit
      [] sensor_type = "light" -> 600 * Unit
      [] OTHER -> 100 * Unit

\* the bounds as claimed: the warning threshold when it is set, 0 included,
\* otherwise the fallback of the type
effectiveMin(sensor_type, min_warning) ==
    IF IsNone(min_warning) THEN FallbackMin(sensor_type) ELSE min_warning[1]

effectiveMax(sensor_type, max_warning) ==
    IF IsNone(max_warning) THEN FallbackMax(sensor_type) ELSE max_warning[1]

\* the row the followed worker runs with, and the bounds the code clamps to
GenRow == kargs[GenWorker]

GenRanges ==
    _get_value_ranges(GenRow.type, GenRow.min_warning, GenRow.max_warning,
                      GenRow.min_critical, GenRow.max_critical)

Returned == generated[GenWorker[2]]

(* -------------------------------- C13 ---------------------------------- *)

\* C13, as claimed: every value _generate_value returns lies within
\* [effectiveMin, effectiveMax] of the sensor.
C13_WithinEffectiveBounds ==
    \A i \in DOMAIN Returned :
        /\ effectiveMin(GenRow.type, GenRow.min_warning) <= Returned[i]
        /\ Returned[i] <= effectiveMax(GenRow.type, GenRow.max_warning)

\* C13, amended: every value _generate_value returns lies within the clamp
\* bounds of _get_value_ranges rounded to the type's precision when the lower
\* bound is not above the upper one, and is the rounded lower bound otherwise.
C13_WithinRoundedBounds ==
    \A i \in DOMAIN Returned :
        IF GenRanges[2] <= GenRanges[3]
        THEN /\ _round_value(GenRanges[2], GenRow.type) <= Returned[i]
             /\ Returned[i] <= _round_value(GenRanges[3], GenRow.type)
        ELSE Returned[i] = _round_value(GenRanges[2], GenRow.type)

\* the temperature generator, with a lower bound of 20.0449, has returned 20.0
\* twice
C13_Witness ==
    /\ GenRow.type = "temperature"
    /\ GenRow.min_warning = Some(200449)
    /\ GenRow.max_warning = Some(40 * Unit)
    /\ Returned = <<20 * Unit, 20 * Unit>>

(* -------------------------------- C14 ---------------------------------- *)

Truthy(t) == ~IsNone(t) /\ t[1] # 0

ClassValues == {0 - Unit, 0, 10 * Unit, 15 * Unit, 20 * Unit, 25 * Unit}

ClassThresholds == {None, Some(0), Some(10 * Unit), Some(20 * Unit)}

ClassRows ==
    [type : {"temperature"}, min_warning : ClassThresholds, max_warning : ClassThresholds,
     min_critical : ClassThresholds, max_critical : ClassThresholds]

\* a worker for sensor 1, started with any of the rows, that holds any of the
\* values and is about to classify and enqueue it
ClassifierInit ==
    \E row \in ClassRows, v \in ClassValues : Constructed(SetupRows, "put", v, row)

ClassifierNext == WorkerPut(GenWorker)

ClassifierSpec == ClassifierInit /\ [][ClassifierNext]_vars

\* a set threshold the value is at or below, at or above
AtOrBelow(value, t) == ~IsNone(t) /\ value <= t[1]

AtOrAbove(value, t) == ~IsNone(t) /\ value >= t[1]

CriticalViolated(value, row) ==
    AtOrBelow(value, row.min_critical) \/ AtOrAbove(value, row.max_critical)

WarningViolated(value, row) ==
    AtOrBelow(value, row.min_warning) \/ AtOrAbove(value, row.max_warning)

(* -------------------------------- C15 ---------------------------------- *)

\* C15: a Reading whose value is at or beyond a set critical threshold is
\* classified Critical (2), also when a warning threshold is violated too.
C15_CriticalPrecedes ==
    \A i \in DOMAIN enqueued :
        CriticalViolated(enqueued[i].value, GenRow) => enqueued[i].status = 2

\* a Reading at or beyond a critical and a warning threshold was classified
\* Critical
C15_Witness ==
    \E i \in DOMAIN enqueued :
        /\ AtOrAbove(enqueued[i].value, GenRow.max_critical)
        /\ AtOrAbove(enqueued[i].value, GenRow.max_warning)
        /\ ~AtOrBelow(enqueued[i].value, GenRow.min_critical)
        /\ GenRow.max_warning # GenRow.max_critical
        /\ enqueued[i].status = 2

(* -------------------------------- C16 ---------------------------------- *)

Equals(value, t) == ~IsNone(t) /\ value = t[1]

\* C16: a Reading whose value equals a set critical threshold is classified
\* Critical, and one whose value equals a set warning threshold is classified
\* Warning or Critical, never Normal.
C16_BoundaryInclusive ==
    \A i \in DOMAIN enqueued :
        /\ Equals(enqueued[i].value, GenRow.min_critical)
             \/ Equals(enqueued[i].value, GenRow.max_critical)
           => enqueued[i].status = 2
        /\ Equals(enqueued[i].value, GenRow.min_warning)
             \/ Equals(enqueued[i].value, GenRow.max_warning)
           => enqueued[i].status \in {1, 2}

\* a Reading whose value equals max_warning, and violates no other threshold,
\* was classified Warning
C16_Witness ==
    \E i \in DOMAIN enqueued :
        /\ Equals(enqueued[i].value, GenRow.max_warning)
        /\ ~AtOrBelow(enqueued[i].value, GenRow.min_warning)
        /\ ~CriticalViolated(enqueued[i].value, GenRow)
        /\ GenRow.min_critical # None
        /\ enqueued[i].status = 1

(* -------------------------------- C17 ---------------------------------- *)

\* C17: every Reading gets a status among 0, 1 and 2: 2 when a set critical
\* threshold is violated, else 1 when a set warning threshold is violated, else
\* 0; an unset threshold violates nothing, a threshold of 0 is a set one, and
\* the status is 0 exactly when no set threshold is violated.
C17_StatusIsReference ==
    \A i \in DOMAIN enqueued :
        /\ enqueued[i].status \in {0, 1, 2}
        /\ enqueued[i].status =
             IF CriticalViolated(enqueued[i].value, GenRow) THEN 2
             ELSE IF WarningViolated(enqueued[i].value, GenRow) THEN 1
             ELSE 0
        /\ enqueued[i].status = 0
             <=> ~(CriticalViolated(enqueued[i].value, GenRow)
                   \/ WarningViolated(enqueued[i].value, GenRow))

\* a Reading of value 0 was classified Warning on a threshold of 0, with both
\* critical thresholds unset
C17_Witness ==
    \E i \in DOMAIN enqueued :
        /\ enqueued[i].value = 0
        /\ GenRow.min_warning = Some(0)
        /\ GenRow.max_warning = Some(20 * Unit)
        /\ GenRow.min_critical = None
        /\ GenRow.max_critical = None
        /\ enqueued[i].status = 1

(* ---------------- the logger on any sensors relation -------------------- *)

\* the sensors relation start_logging() can find: the rows setup leaves, or none
\* (a database whose tables were created and whose sensors were not initialized)
SensorRelations == {SetupRows, [s \in {} |-> InitialSensorRow(s)]}

ConfigInit == \E sensors \in SensorRelations : Constructed(sensors, "unborn", 0, NoArgs)

ConfigSpec == ConfigInit /\ [][Next]_vars

(* -------------------------------- C18 ---------------------------------- *)

NoSensors == DOMAIN store.sensors = {}

\* C18: when the store holds no sensor row and start_logging() has returned,
\* the logger is not running and no writer or worker thread is alive.
C18_StartAbortsWithoutSensors ==
    NoSensors /\ cpc = "idle" /\ last_call \in {"start", "start_noop"}
    => ~is_running /\ AllTerminated

(* ---------------- the logger with failing iterations -------------------- *)

FaultNext == Next \/ \E k \in Workers : WorkerFails(k)

FaultSpec == Init /\ [][FaultNext]_vars

(* -------------------------------- C19 ---------------------------------- *)

\* C19: an exception raised in a worker iteration does not end the worker and
\* reaches no other thread: the step that handles it puts nothing on the queue,
\* leaves the worker at its loop test and moves no other thread; a worker ends
\* only by reading the flag false; and what is enqueued for a sensor is, in
\* order, among the values generated for it.
C19_WorkerSurvivesFailure ==
    /\ [][\A k \in Workers :
            WorkerFails(k)
            => /\ kpc'[k] = "loop"
               /\ \A j \in Workers : j # k => kpc'[j] = kpc[j]
               /\ UNCHANGED <<data_queue, enqueued, wpc, cpc, is_running>>
               /\ value_lock' # k]_vars
    /\ [][\A k \in Workers : Alive(kpc[k]) /\ kpc'[k] = "done" => ~is_running]_vars
    /\ [](\A s \in SensorIds : IsSubseq(ValuesOf(Of(enqueued, s)), generated[s]))

\* the temperature worker generated 24.5, failed before it enqueued it, and in
\* a later iteration generated and enqueued 24.0
C19_Witness ==
    /\ generated[1] = <<245000, 240000>>
    /\ ValuesOf(Of(enqueued, 1)) = <<240000>>
    /\ is_running

(* -------------------------------- C20 ---------------------------------- *)

\* the writer's step that handles the failed write of the n-th dequeued Reading
FailsAt(n) == outcome[n] = "inflight" /\ outcome'[n] = "failed"

\* C20: the step that handles a failed write leaves the queue as it was,
\* leaves the database lock free and the writer alive at its loop test; a
\* failed write stays failed; every enqueued Reading is, once, either dequeued
\* or on the queue; and the measurements never number more than the dequeued
\* Readings whose write did not fail.
C20_FailedReadingDropped ==
    /\ [][\A n \in DOMAIN outcome :
            FailsAt(n)
            => /\ data_queue' = data_queue
               /\ db_lock' = 0
               /\ \E g \in Gens : wpos[g] = n /\ wpc'[g] = "loop"]_vars
    /\ [][\A n \in DOMAIN outcome : outcome[n] = "failed" => outcome'[n] = "failed"]_vars
    /\ [](enqueued = dequeued \o data_queue)
    /\ [](Len(store.measurements) <= Len(dequeued) - CountOutcome("failed"))

\* the first dequeued Reading's write failed and the writer went on to persist
\* the second: the only measurement is the second Reading, the lock is free
C20_Witness ==
    /\ outcome = <<"failed", "persisted">>
    /\ store.measurements = <<dequeued[2]>>
    /\ dequeued[1] # dequeued[2]
    /\ db_lock = 0

(* -------------------------------- C21 ---------------------------------- *)

\* the Readings enqueued since stop_logging() cleared the flag
SinceStop == SubSeq(enqueued, stop_mark + 1, Len(enqueued))

Stopping == cpc \in {"join_db", "join_workers"}

\* a Reading with all four fields, the status being that of its value under the
\* thresholds of its sensor's row
Complete(r) ==
    /\ DOMAIN r = {"sensor_id", "value", "status", "timestamp"}
    /\ r.sensor_id \in DOMAIN store.sensors
    /\ r.timestamp \in 0 .. MaxTime
    /\ \E i \in DOMAIN generated[r.sensor_id] : generated[r.sensor_id][i] = r.value
    /\ r.status = _determine_status(r.value,
                                    store.sensors[r.sensor_id].min_warning,
                                    store.sensors[r.sensor_id].max_warning,
                                    store.sensors[r.sensor_id].min_critical,
                                    store.sensors[r.sensor_id].max_critical)

\* C21: while stop_logging() waits, each sensor has had at most one Reading
\* enqueued since the flag was cleared, and the worker that enqueued it is at its
\* loop test or has ended; every Reading ever enqueued is complete; and while the
\* logger is stopped and no call is in progress, nothing is enqueued.
C21_StopBoundsEnqueues ==
    /\ [](Stopping =>
            \A s \in SensorIds :
                /\ Len(Of(SinceStop, s)) <= 1
                /\ Len(Of(SinceStop, s)) = 1
                   => \A g \in Gens : kpc[<<g, s>>] \in {"unborn", "loop", "done"})
    /\ [](\A i \in DOMAIN enqueued : Complete(enqueued[i]))
    /\ [][cpc = "idle" /\ ~is_running => enqueued' = enqueued]_vars

\* stop_logging() has joined the writer and waits for the workers; since it
\* cleared the flag each of the two workers has enqueued the Reading of the
\* iteration it was in, one of them with a status other than Normal
C21_Witness ==
    /\ cpc = "join_workers"
    /\ last_call = "stop"
    /\ Len(SinceStop) = 2
    /\ \A s \in SensorIds : Len(Of(SinceStop, s)) = 1
    /\ \E i \in DOMAIN SinceStop : SinceStop[i].status # 0

(* -------------------------------- C22 ---------------------------------- *)

\* the last measurement record of a sensor
Latest(sensor_id) ==
    Of(store.measurements, sensor_id)[Len(Of(store.measurements, sensor_id))]

\* C22: a sensor that has a measurement record carries in its row the value,
\* status and timestamp of its last measurement record.
C22_RowIsLatestMeasurement ==
    \A s \in DOMAIN store.sensors :
        Of(store.measurements, s) # <<>>
        => /\ store.sensors[s].last_reading = Latest(s).value
           /\ store.sensors[s].status = Latest(s).status
           /\ store.sensors[s].last_reading_time = Latest(s).timestamp

\* the motion sensor has two measurements, of seconds 0 and 1, and its row
\* carries the second one's; the temperature sensor has one, with status Warning
C22_Witness ==
    /\ Len(Of(store.measurements, 6)) = 2
    /\ Of(store.measurements, 6)[1].timestamp = 0
    /\ Latest(6).timestamp = 1
    /\ store.sensors[6].last_reading_time = 1
    /\ Len(Of(store.measurements, 1)) = 1
    /\ store.sensors[1].status = 1

(* ------------- one sensor's pipeline, from the draw to the alert -------- *)

\* a sensor row of the given type and thresholds, as setup inserts it
SensorRow(sensor_type, min_warning, max_warning, min_critical, max_critical) ==
    [type |-> sensor_type, last_reading |-> 0, status |-> 0, last_reading_time |-> 0,
     min_warning |-> min_warning, max_warning |-> max_warning,
     min_critical |-> min_critical, max_critical |-> max_critical]

\* the rows sensor 1 is given: the temperature, water_leak and motion rows of
\* initialize_sensors(), a water_leak row with max_critical alone, a motion
\* row with the warning thresholds alone, and a row of a type that is not
\* configured
PipelineRows ==
    {InitialSensorRow(1),
     SensorRow("pressure", None, Some(50 * Unit), None, None),
     SensorRow("water_leak", Some(0), Some(1 * Unit), Some(0), Some(1 * Unit)),
     SensorRow("water_leak", None, None, None, Some(1 * Unit)),
     InitialSensorRow(6),
     SensorRow("motion", None, Some(1 * Unit), None, None)}

\* the last value the logger holds for sensor 1 when its worker starts: none, or
\* one a previous run left (under the thresholds of that time)
PipelineLasts(sensor_type) ==
    IF sensor_type = "temperature"
    THEN {Some(290000), Some(298000), Some(306000), Some(348000)}
    ELSE {None, Some(5000), Some(1 * Unit)}

\* the arguments a worker is started with from a row
ArgsOf(row) ==
    [type |-> row.type, min_warning |-> row.min_warning, max_warning |-> row.max_warning,
     min_critical |-> row.min_critical, max_critical |-> row.max_critical]

\* a logger that start_logging() has started on a database whose row 1 is `row`:
\* the writer and the worker of sensor 1 are at their loop tests
Running(row, last) ==
    /\ is_running = TRUE
    /\ db_thread = 1
    /\ threads = [s \in SensorIds |-> IF s = 1 THEN 1 ELSE 0]
    /\ data_queue = <<>>
    /\ last_values = [s \in SensorIds |-> IF s = 1 THEN last ELSE None]
    /\ value_lock = <<>>
    /\ db_lock = 0
    /\ store = [sensors |-> [SetupRows EXCEPT ![1] = row],
                measurements |-> <<>>, alerts |-> <<>>]
    /\ wpc = [g \in Gens |-> IF g = 1 THEN "loop" ELSE "unborn"]
    /\ wdata = [g \in Gens |-> NoReading]
    /\ wconn = [g \in Gens |-> <<>>]
    /\ kpc = [k \in Workers |-> IF k = GenWorker THEN "loop" ELSE "unborn"]
    /\ kvalue = [k \in Workers |-> 0]
    /\ kargs = [k \in Workers |-> IF k = GenWorker THEN ArgsOf(row) ELSE NoArgs]
    /\ cpc = "idle"
    /\ loaded = {}
    /\ last_call = "start"
    /\ stop_mark = 0
    /\ now = 0
    /\ next_sample = [s \in SensorIds |-> 0]
    /\ generated = [s \in SensorIds |-> <<>>]
    /\ enqueued = <<>>
    /\ dequeued = <<>>
    /\ outcome = <<>>
    /\ wpos = [g \in Gens |-> 0]
    /\ checks = 0

PipelineInit ==
    \E row \in PipelineRows : \E last \in PipelineLasts(row.type) : Running(row, last)

\* _generate_value, under the lock, with any of the three draws
WorkerGenerateAny(k) ==
    /\ kpc[k] = "locked"
    /\ \E seed \in (IF IsNone(last_values[k[2]])
                    THEN _get_initial_value(kargs[k].type)
                    ELSE {last_values[k[2]][1]}) :
         \E change \in Draws(_get_value_ranges(kargs[k].type, kargs[k].min_warning,
                                kargs[k].max_warning, kargs[k].min_critical,
                                kargs[k].max_critical)[1]) :
            LET new_value == NewValue(seed, change, kargs[k].type, kargs[k].min_warning,
                                      kargs[k].max_warning, kargs[k].min_critical,
                                      kargs[k].max_critical)
            IN  /\ last_values' = [last_values EXCEPT ![k[2]] = Some(new_value)]
                /\ kvalue' = [kvalue EXCEPT ![k] = new_value]
                /\ generated' = [generated EXCEPT ![k[2]] = Append(@, new_value)]
    /\ value_lock' = <<>>
    /\ kpc' = [kpc EXCEPT ![k] = "put"]
    /\ UNCHANGED <<is_running, db_thread, threads, data_queue, db_lock, store,
                   writerVars, kargs, callerVars, enqueued, dequeued, outcome, checks,
                   clockVars>>

\* the worker of sensor 1 and the writer, while the logger runs
PipelineNext ==
    \/ WorkerContinue(GenWorker)
    \/ WorkerAcquire(GenWorker)
    \/ WorkerGenerateAny(GenWorker)
    \/ WorkerPut(GenWorker)
    \/ WriterContinue(1)
    \/ WriterGet(1)
    \/ WriterTimeout(1)
    \/ WriterLock(1)
    \/ WriterExecutes(1)
    \/ WriterCommit(1)

PipelineSpec == PipelineInit /\ [][PipelineNext]_vars

(* -------------------------------- C23 ---------------------------------- *)

\* sensor 1 is the temperature sensor with thresholds 20, 30, 15, 35
TemperatureCase == ArgsOf(store.sensors[1]) = ArgsOf(InitialSensorRow(1))

\* C23: for that sensor, a call of _generate_value whose last value plus delta
\* exceeds 30 for every draw returns 30.0, and no call returns more; a Reading
\* of value 30.0 has status Warning; and an alert for value 30.0 has severity
\* "warning" and the description "High temperature: 30.0°C".
C23_ClampedToWarningBound ==
    /\ [][TemperatureCase /\ kpc[GenWorker] = "locked" /\ kpc'[GenWorker] = "put"
          => /\ kvalue'[GenWorker] <= 30 * Unit
             /\ (\A c \in Draws(5000) : last_values[1][1] + c > 30 * Unit)
                => kvalue'[GenWorker] = 30 * Unit]_vars
    /\ [](TemperatureCase
          => \A i \in DOMAIN enqueued :
                enqueued[i].value = 30 * Unit => enqueued[i].status = 1)
    /\ [](TemperatureCase
          => \A j \in DOMAIN store.alerts :
                store.alerts[j].value = 30 * Unit
                => /\ store.alerts[j].severity = "warning"
                   /\ Text(store.alerts[j].description) = "High temperature: 30.0°C")

\* the worker generated 30.0 and the writer has persisted it with its alert
C23_Witness ==
    /\ TemperatureCase
    /\ generated[1] = <<30 * Unit>>
    /\ Len(store.measurements) = 1
    /\ store.measurements[1].status = 1
    /\ Len(store.alerts) = 1
    /\ Text(store.alerts[1].description) = "High temperature: 30.0°C"

(* -------------------------------- C24 ---------------------------------- *)

\* the message of a type whose description does not depend on the value
FixedMessage(sensor_type) ==
    IF sensor_type = "water_leak" THEN "Water leak detected"
    ELSE "Unauthorized motion detected"

\* C24: when sensor 1 is a water_leak or a motion sensor, every alert of it
\* carries the type's one message, whatever its value and severity; and a
\* water_leak Reading of value 1 under max_critical = 1 has status Critical.
C24_FixedDescription ==
    /\ store.sensors[1].type \in {"water_leak", "motion"}
       => \A j \in DOMAIN store.alerts :
             Text(store.alerts[j].description) = FixedMessage(store.sensors[1].type)
    /\ store.sensors[1].type = "water_leak" /\ store.sensors[1].max_critical = Some(1 * Unit)
       => \A i \in DOMAIN enqueued :
             enqueued[i].value = 1 * Unit => enqueued[i].status = 2

\* a water_leak sensor with max_critical = 1 alone produced the value 1, and the
\* writer persisted it as Critical with the alert "Water leak detected"
C24_Witness ==
    /\ store.sensors[1].type = "water_leak"
    /\ store.sensors[1].min_critical = None
    /\ Len(store.measurements) = 1
    /\ store.measurements[1].value = 1 * Unit
    /\ store.measurements[1].status = 2
    /\ Len(store.alerts) = 1
    /\ store.alerts[1].severity = "critical"
    /\ Text(store.alerts[1].description) = "Water leak detected"

(* -------------------------------- C25 ---------------------------------- *)

\* whole seconds in twice the nominal interval of a configured type; one second
\* for any other type
TwiceNominal(sensor_type) ==
    IF sensor_type \in KnownTypes THEN (2 * ConfigInterval(sensor_type)) \div 1000 ELSE 1

\* C25: the worker that has put a Reading at second t does not sample again
\* before t plus twice its type's nominal interval, or t plus one second when
\* its type is not configured (intervals in whole seconds of the clock).
C25_WaitIsTwiceNominal ==
    [][kpc[GenWorker] = "put" /\ kpc'[GenWorker] = "loop"
       => next_sample'[1] = now' + TwiceNominal(kargs[GenWorker].type)]_vars

\* a temperature worker put its Reading at second 1 and sleeps until second 3
C25_Witness ==
    /\ kargs[GenWorker].type = "temperature"
    /\ kpc[GenWorker] = "loop"
    /\ Len(enqueued) = 1
    /\ enqueued[1].timestamp = 1
    /\ next_sample[1] = 3

(* -------------------------------- C26 ---------------------------------- *)

\* the workers a step starts
Launched == {k \in Workers : kpc[k] = "unborn" /\ kpc'[k] # "unborn"}

\* C26: a worker exists only if the writer of its start_logging() call was
\* started before it; the step that ends a successful start_logging() starts
\* exactly one worker for each sensor row, with the row's id, type and
\* thresholds as arguments, and no other step starts a worker; while the
\* logger runs and no call is in progress, each row has exactly that one worker
\* alive; and a Reading is enqueued only when the last writer has been started.
C26_WriterThenOneWorkerPerRow ==
    /\ [](\A k \in Workers : kpc[k] # "unborn" => wpc[k[1]] # "unborn")
    /\ [][IF cpc = "launch" /\ cpc' = "idle"
          THEN /\ Launched = {db_thread} \X DOMAIN store.sensors
               /\ wpc[db_thread] # "unborn"
               /\ \A k \in Launched : kargs'[k] = ArgsOf(store.sensors[k[2]])
          ELSE Launched = {}]_vars
    /\ [](cpc = "idle" /\ is_running
          => \A s \in DOMAIN store.sensors :
                {g \in Gens : Alive(kpc[<<g, s>>])} = {db_thread})
    /\ [][enqueued' # enqueued => db_thread # 0 /\ wpc[db_thread] # "unborn"]_vars

\* the second start_logging() has returned: the second writer runs, each sensor
\* row has its worker of the second generation with the row's arguments, the
\* first ones have ended, and nothing was enqueued since
C26_Witness ==
    /\ cpc = "idle"
    /\ last_call = "start"
    /\ is_running
    /\ db_thread = 2
    /\ wpc[2] # "unborn"
    /\ \A s \in SensorIds :
          /\ kpc[<<2, s>>] = "loop"
          /\ kpc[<<1, s>>] = "done"
          /\ kargs[<<2, s>>] = ArgsOf(store.sensors[s])
    /\ generated = [s \in SensorIds |-> <<>>]

(* -------------------------------- C27 ---------------------------------- *)

\* writer g's step that commits the write of its Reading
Commits(g) == wpc[g] = "commit" /\ wpc'[g] = "loop" /\ outcome'[wpos[g]] = "persisted"

\* C27: the writer that has executed its statements for a Reading has executed
\* an INSERT of an alert exactly when the Reading's status is not 0; the step
\* that commits the write appends one alert when the status is not 0 and none
\* when it is 0; the alert carries the Reading's sensor_id, timestamp and value,
\* and its severity is "critical" for status 2 and "warning" for status 1; no
\* other step of the logger changes the alerts.
C27_AlertIffNotNormal ==
    /\ [](\A g \in Gens :
            wpc[g] = "commit"
            => ((\E i \in DOMAIN wconn[g] : wconn[g][i].op = "insert_alert")
                <=> wdata[g].status # 0))
    /\ [][IF \E g \in Gens : Commits(g)
          THEN \A g \in Gens :
                  Commits(g)
                  => IF wdata[g].status = 0
                     THEN store'.alerts = store.alerts
                     ELSE /\ Len(store'.alerts) = Len(store.alerts) + 1
                          /\ SubSeq(store'.alerts, 1, Len(store.alerts)) = store.alerts
                          /\ SameKey(store'.alerts[Len(store'.alerts)], wdata[g])
                          /\ store'.alerts[Len(store'.alerts)].severity = "critical"
                             <=> wdata[g].status = 2
                          /\ store'.alerts[Len(store'.alerts)].severity = "warning"
                             <=> wdata[g].status = 1
          ELSE store'.alerts = store.alerts]_vars

\* a Normal temperature Reading and a Critical motion Reading were persisted:
\* there is one alert, the motion Reading's, with severity "critical"
C27_Witness ==
    /\ Len(store.measurements) = 2
    /\ \E i \in 1 .. 2 : store.measurements[i].status = 0 /\ store.measurements[i].sensor_id = 1
    /\ \E i \in 1 .. 2 : store.measurements[i].status = 2 /\ store.measurements[i].sensor_id = 6
    /\ Len(store.alerts) = 1
    /\ store.alerts[1].sensor_id = 6
    /\ store.alerts[1].severity = "critical"

(* -------------------------------- C28 ---------------------------------- *)

\* worker k waits for value_lock, which a worker of another sensor holds
BlockedByOther(k) ==
    /\ kpc[k] = "generate"
    /\ IF value_lock = <<>> THEN FALSE ELSE value_lock[2] # k[2]

\* C28, as claimed: a worker about to generate a value is never kept waiting by
\* a worker of a different sensor.
C28_NeverBlockedByOther == \A k \in Workers : ~BlockedByOther(k)

\* C28, amended: a worker is kept waiting by a worker of another sensor only
\* while that worker is inside the locked section of _generate_value, where it
\* waits for nothing: it can take its step out of the section, which frees the
\* lock.
C28_BlockedOnlyDuringSection ==
    /\ [](\A k \in Workers :
            BlockedByOther(k)
            => /\ kpc[value_lock] = "locked"
               /\ ENABLED WorkerGenerate(value_lock))
    /\ [][\A k \in Workers :
            BlockedByOther(k) /\ kpc'[value_lock] # "locked" => value_lock' = <<>>]_vars

\* the motion worker waits for the lock while the temperature worker is inside
\* the section
C28_Witness ==
    /\ BlockedByOther(<<1, 6>>)
    /\ value_lock = <<1, 1>>
    /\ kpc[<<1, 1>>] = "locked"

(* -------------------------------- C29 ---------------------------------- *)

\* C29: every step of the logger leaves the measurement and alert records there
\* were in place and unchanged, adding at most to their end, and leaves each
\* sensor row's type and four thresholds, and the set of rows, unchanged.
C29_LogsAppendOnly ==
    [][/\ IsPrefix(store.measurements, store'.measurements)
       /\ IsPrefix(store.alerts, store'.alerts)
       /\ DOMAIN store'.sensors = DOMAIN store.sensors
       /\ \A s \in DOMAIN store.sensors :
             ArgsOf(store'.sensors[s]) = ArgsOf(store.sensors[s])]_vars

\* three measurements and their alerts were persisted one after the other, the
\* temperature row was updated to a Warning reading, and the thresholds of the
\* rows are those of the setup
C29_Witness ==
    /\ Len(store.measurements) = 3
    /\ Len(store.alerts) = 3
    /\ store.sensors[1].status = 1
    /\ store.sensors[6].last_reading_time = 1
    /\ \A s \in SensorIds : ArgsOf(store.sensors[s]) = ArgsOf(InitialSensorRow(s))

(* -------------------------------- C30 ---------------------------------- *)

\* start_logging() is in the stop_logging() its error handler called
StartIsStopping == last_call = "start" /\ Stopping

\* start_logging() has returned with the flag cleared: its load had failed
StartFailed == last_call = "start" /\ cpc = "idle" /\ ~is_running

\* C30: when the load of the sensor rows raises, the step that handles it clears
\* the flag and starts no worker; start_logging() then waits with the flag
\* cleared and, under fair scheduling, returns; and when it has returned the
\* flag is cleared, the writer it started has ended, no worker of that call
\* exists, no thread is alive and the database lock is free.
C30_FailedLoadStopsLogger ==
    /\ [][cpc = "load" /\ cpc' \notin {"load", "launch"}
          => ~is_running' /\ cpc' = "join_db" /\ kpc' = kpc /\ db_lock' = db_lock]_vars
    /\ [](StartIsStopping => ~is_running /\ loaded = {})
    /\ [](StartFailed
          => /\ wpc[db_thread] = "done"
             /\ \A s \in SensorIds : kpc[<<db_thread, s>>] = "unborn"
             /\ AllTerminated
             /\ db_lock = 0)
    /\ (StartIsStopping ~> StartFailed)

\* the first start_logging() has returned after a failed load: the flag is
\* cleared, its writer has ended, and there is no worker
C30_Witness ==
    /\ StartFailed
    /\ db_thread = 1
    /\ wpc[1] = "done"
    /\ \A k \in Workers : kpc[k] = "unborn"
    /\ db_lock = 0

(* -------------------------------- C31 ---------------------------------- *)

\* the values a call for worker k can return when the walk goes on from `last`
StepsFrom(last, k) ==
    {NewValue(last, c, kargs[k].type, kargs[k].min_warning, kargs[k].max_warning,
              kargs[k].min_critical, kargs[k].max_critical) :
       c \in Changes(_get_value_ranges(kargs[k].type, kargs[k].min_warning,
                                       kargs[k].max_warning, kargs[k].min_critical,
                                       kargs[k].max_critical)[1])}

Callers == {1, 2}

\* here cpc and loaded are kept per calling thread: cpc[c] is <<position, the
\* writer the thread created (0: none)>>, loaded[c] the rows it fetched
RaceInit ==
    /\ is_running = FALSE
    /\ db_thread = 0
    /\ threads = [s \in SensorIds |-> 0]
    /\ data_queue = <<>>
    /\ last_values = [s \in SensorIds |-> None]
    /\ value_lock = <<>>
    /\ db_lock = 0
    /\ store = [sensors |-> SetupRows, measurements |-> <<>>, alerts |-> <<>>]
    /\ wpc = [g \in Gens |-> "unborn"]
    /\ wdata = [g \in Gens |-> NoReading]
    /\ wconn = [g \in Gens |-> <<>>]
    /\ kpc = [k \in Workers |-> "unborn"]
    /\ kvalue = [k \in Workers |-> 0]
    /\ kargs = [k \in Workers |-> NoArgs]
    /\ cpc = [c \in Callers |-> <<"idle", 0>>]
    /\ loaded = [c \in Callers |-> {}]
    /\ last_call = "none"
    /\ stop_mark = 0
    /\ now = 0
    /\ next_sample = [s \in SensorIds |-> 0]
    /\ generated = [s \in SensorIds |-> <<>>]
    /\ enqueued = <<>>
    /\ dequeued = <<>>
    /\ outcome = <<>>
    /\ wpos = [g \in Gens |-> 0]
    /\ checks = 0

\* thread c calls start_logging() and evaluates `if not self.is_running`: it
\* returns when the flag is set, else it goes on to set it
CallerTests(c) ==
    /\ cpc[c][1] = "idle"
    /\ cpc' = [cpc EXCEPT ![c] = IF is_running THEN <<"returned", 0>> ELSE <<"set", 0>>]
    /\ last_call' = "start"
    /\ UNCHANGED <<loggerVars, store, writerVars, workerVars, loaded, stop_mark,
                   historyVars, clockVars>>

\* thread c sets the flag, creates its writer thread and starts it
CallerSets(c) ==
    /\ cpc[c][1] = "set"
    /\ Starts < MaxStarts
    /\ is_running' = TRUE
    /\ db_thread' = Starts + 1
    /\ wpc' = [wpc EXCEPT ![Starts + 1] = "loop"]
    /\ cpc' = [cpc EXCEPT ![c] = <<"load", Starts + 1>>]
    /\ UNCHANGED <<threads, data_queue, last_values, value_lock, db_lock, store,
                   wdata, wconn, wpos, workerVars, loaded, last_call, stop_mark,
                   historyVars, clockVars>>

\* thread c, in _start_sensor_threads(), reads the sensor rows under db_lock
CallerLoads(c) ==
    /\ cpc[c][1] = "load"
    /\ db_lock = 0
    /\ loaded' = [loaded EXCEPT ![c] = FetchAll(store.sensors)]
    /\ cpc' = [cpc EXCEPT ![c] = <<"launch", cpc[c][2]>>]
    /\ UNCHANGED <<loggerVars, store, writerVars, workerVars, last_call, stop_mark,
                   historyVars, clockVars>>

\* thread c starts one thread per fetched row and returns
CallerLaunches(c) ==
    /\ cpc[c][1] = "launch"
    /\ kpc' = [k \in Workers |->
                 IF k[1] = cpc[c][2] /\ k[2] \in loaded[c] THEN "loop" ELSE kpc[k]]
    /\ kargs' = [k \in Workers |->
                   IF k[1] = cpc[c][2] /\ k[2] \in loaded[c]
                   THEN ArgsOf(store.sensors[k[2]]) ELSE kargs[k]]
    /\ threads' = [s \in SensorIds |-> IF s \in loaded[c] THEN cpc[c][2] ELSE threads[s]]
    /\ loaded' = [loaded EXCEPT ![c] = {}]
    /\ cpc' = [cpc EXCEPT ![c] = <<"returned", cpc[c][2]>>]
    /\ UNCHANGED <<is_running, db_thread, data_queue, last_values, value_lock, db_lock,
                   store, writerVars, kvalue, last_call, stop_mark, historyVars,
                   clockVars>>

\* the two calling threads, the workers they start, and their writers up to
\* the first Reading the queue holds (the schedules in which no writer has yet
\* taken a Reading)
RaceNext ==
    \/ \E c \in Callers : CallerTests(c)
    \/ \E c \in Callers : CallerSets(c)
    \/ \E c \in Callers : CallerLoads(c)
    \/ \E c \in Callers : CallerLaunches(c)
    \/ \E k \in Workers : WorkerContinue(k)
    \/ \E k \in Workers : WorkerAcquire(k)
    \/ \E k \in Workers : WorkerGenerate(k)
    \/ \E k \in Workers : WorkerPut(k)
    \/ \E g \in Gens : WriterContinue(g)
    \/ \E g \in Gens : WriterTimeout(g)

RaceSpec == RaceInit /\ [][RaceNext]_vars

(* -------------------------------- C32 ---------------------------------- *)

\* C32: of two concurrent start_logging() calls on a stopped logger, only one
\* starts threads: there is at most one writer thread and at most one worker
\* thread for each sensor_id.
C32_OneStartWins ==
    /\ Cardinality({g \in Gens : wpc[g] # "unborn"}) <= 1
    /\ \A s \in SensorIds : Cardinality({g \in Gens : kpc[<<g, s>>] # "unborn"}) <= 1

(* -------------------------------- C33 ---------------------------------- *)

\* the positions at which a writer is inside `with self.db_lock`
InDbSection == {"connect", "commit"}

\* a step the holder of db_lock can take
DbHolderCanStep ==
    ENABLED (WriterExecutes(db_lock) \/ WriterCommit(db_lock))

\* a step the holder of value_lock can take
ValueHolderCanStep == ENABLED WorkerGenerate(value_lock)

\* C33: value_lock is held only by a worker inside the section of
\* _generate_value and db_lock only by a writer inside its `with` block, so no
\* thread holds both and none holds one while it sleeps, waits on the queue or
\* has ended; the holder of a lock can always take its next step; and a step
\* that takes a thread out of its section, a failure included, frees the lock.
C33_LocksAlwaysReleased ==
    /\ [](value_lock # <<>> => kpc[value_lock] = "locked" /\ ValueHolderCanStep)
    /\ [](db_lock # 0 => wpc[db_lock] \in InDbSection /\ DbHolderCanStep)
    /\ [](\A k \in Workers : kpc[k] = "locked" => value_lock = k)
    /\ [](\A g \in Gens : wpc[g] \in InDbSection => db_lock = g)
    /\ [][\A k \in Workers :
            kpc[k] = "locked" /\ kpc'[k] # "locked" => value_lock' = <<>>]_vars
    /\ [][\A g \in Gens :
            wpc[g] \in InDbSection /\ wpc'[g] \notin InDbSection => db_lock' = 0]_vars

\* the write of the motion sensor's first Reading failed and the database lock
\* is free; a call of _generate_value for the temperature sensor failed after
\* the seeding, and the motion worker holds the value lock for its second value
C33_Witness ==
    /\ outcome = <<"failed">>
    /\ db_lock = 0
    /\ wpc[1] = "get"
    /\ generated[1] = <<>>
    /\ last_values[1] # None
    /\ Len(generated[6]) = 1
    /\ value_lock = <<1, 6>>

(* ------------- a sensor whose thresholds are set and ordered ------------ *)

\* rows with min_critical < min_warning <= max_warning < max_critical, none 0:
\* the temperature row of the setup, two temperature rows whose thresholds have
\* more decimals than a temperature value keeps, one whose max_warning is below
\* the type's normal maximum and one whose min_warning is above it, a tampering
\* row, a humidity row, a light row, and a row of a type that is not configured,
\* with min_warning = max_warning
OrderedRows ==
    {InitialSensorRow(1),
     SensorRow("temperature", Some(200400), Some(30 * Unit), Some(200100), Some(35 * Unit)),
     SensorRow("temperature", Some(200449), Some(299551), Some(15 * Unit), Some(35 * Unit)),
     SensorRow("temperature", Some(20 * Unit), Some(24 * Unit), Some(15 * Unit), Some(35 * Unit)),
     SensorRow("temperature", Some(26 * Unit), Some(30 * Unit), Some(15 * Unit), Some(35 * Unit)),
     SensorRow("light", Some(200 * Unit), Some(800 * Unit), Some(100 * Unit), Some(1000 * Unit)),
     SensorRow("tampering", Some(1000), Some(4000), Some(500), Some(5000)),
     SensorRow("humidity", Some(30 * Unit), Some(70 * Unit), Some(20 * Unit), Some(80 * Unit)),
     SensorRow("pressure", Some(20 * Unit), Some(20 * Unit), Some(10 * Unit), Some(30 * Unit))}

\* the last value the worker starts from: none, or one at a warning threshold
OrderedLasts(row) == {None, Some(row.min_warning[1]), Some(row.max_warning[1])}

OrderedInit == \E row \in OrderedRows : \E last \in OrderedLasts(row) : Running(row, last)

OrderedSpec == OrderedInit /\ [][PipelineNext]_vars

(* -------------------------------- C34 ---------------------------------- *)

\* the types whose clamp bounds are the warning thresholds
ClampsToWarning(sensor_type) == sensor_type \notin {"smoke", "gas", "water_leak"}

NonZero(t) == ~IsNone(t) /\ t[1] # 0

\* the thresholds are all set, not 0, and ordered
SetAndOrdered(row) ==
    /\ NonZero(row.min_warning) /\ NonZero(row.max_warning)
    /\ NonZero(row.min_critical) /\ NonZero(row.max_critical)
    /\ row.min_critical[1] < row.min_warning[1]
    /\ row.min_warning[1] <= row.max_warning[1]
    /\ row.max_warning[1] < row.max_critical[1]

\* no Reading is Critical, and a Warning one is at a warning threshold
NormalOrWarningAtBound(row) ==
    \A i \in DOMAIN enqueued :
        /\ enqueued[i].status \in {0, 1}
        /\ enqueued[i].status = 1
           => enqueued[i].value \in {row.min_warning[1], row.max_warning[1]}

\* C34, as claimed: for a worker of such a type with thresholds set and
\* ordered, every Reading is Normal or Warning, and Warning only at a value
\* equal to a warning threshold.
C34_NeverCritical ==
    ClampsToWarning(GenRow.type) /\ SetAndOrdered(GenRow) => NormalOrWarningAtBound(GenRow)

\* the warning thresholds have no more decimals than a value of the type keeps
WarningsRounded(row) ==
    /\ _round_value(row.min_warning[1], row.type) = row.min_warning[1]
    /\ _round_value(row.max_warning[1], row.type) = row.max_warning[1]

\* C34, amended: the same, for a sensor whose warning thresholds have no more
\* decimals than its type's values are rounded to.
C34_NeverCriticalWhenRounded ==
    ClampsToWarning(GenRow.type) /\ SetAndOrdered(GenRow) /\ WarningsRounded(GenRow)
    => NormalOrWarningAtBound(GenRow)

\* a tampering worker with thresholds 0.05 < 0.1 <= 0.4 < 0.5 produced a
\* Warning Reading at 0.1 and a Normal one at 0.15
C34_Witness ==
    /\ GenRow.type = "tampering"
    /\ Len(enqueued) = 2
    /\ enqueued[1].value = 1000 /\ enqueued[1].status = 1
    /\ enqueued[2].value = 1500 /\ enqueued[2].status = 0

(* ------------------- the historical data of the setup ------------------- *)

\* the number of calls of generate_historical_data
MaxHistory == 1

\* the sensor rows a table is given: a type with a continuous value and one
\* with a binary value, every threshold unset, 0 or one of two values, and the
\* motion row of the setup
ThresholdRows ==
    {SensorRow(sensor_type, min_warning, max_warning, min_critical, max_critical) :
        sensor_type \in {"temperature", "motion"},
        min_warning \in ClassThresholds, max_warning \in ClassThresholds,
        min_critical \in ClassThresholds, max_critical \in ClassThresholds}
    \cup {InitialSensorRow(6)}

\* a database with one sensor row, before the logger is started
ThresholdInit ==
    \E row \in ThresholdRows : Constructed([s \in {1} |-> row], "unborn", 0, NoArgs)

\* `a or b` of two columns, as a column value
OrElse(a, b) == IF Truthy(a) THEN a ELSE b

\* the values random.choice([0, 1]) or random.uniform(min_critical or
\* min_warning, max_critical or max_warning) can return, of those the classifier
\* is run with; none where uniform() is given None and raises TypeError
HistoricalValues(row) ==
    LET a == OrElse(row.min_critical, row.min_warning)
        b == OrElse(row.max_critical, row.max_warning)
    IN  IF row.type \in {"motion", "tampering", "water_leak"} THEN {0, 1 * Unit}
        ELSE IF IsNone(a) \/ IsNone(b) THEN {}
        ELSE {v \in ClassValues : Min2(a[1], b[1]) <= v /\ v <= Max2(a[1], b[1])}

\* the status generate_historical_data computes: `x or -inf`, `x or inf`
HistoricalStatus(value, min_warning, max_warning, min_critical, max_critical) ==
    IF (Truthy(min_critical) /\ value <= min_critical[1])
       \/ (Truthy(max_critical) /\ value >= max_critical[1]) THEN 2
    ELSE IF (Truthy(min_warning) /\ value <= min_warning[1])
            \/ (Truthy(max_warning) /\ value >= max_warning[1]) THEN 1
    ELSE 0

\* severity.title()
Title(severity) == IF severity = "critical" THEN "Critical" ELSE "Warning"

\* one pass of the while loop for a sensor: the INSERT of the measurement and,
\* for a status above 0, of the alert
HistoricalStatements(sensor_id, row, value, t) ==
    LET status == HistoricalStatus(value, row.min_warning, row.max_warning,
                                   row.min_critical, row.max_critical)
    IN  <<InsertMeasurement([sensor_id |-> sensor_id, value |-> value,
                             status |-> status, timestamp |-> t])>>
        \o (IF status > 0
            THEN <<InsertAlert(sensor_id, t, value, Severity(status),
                               <<Title(Severity(status)), " ", row.type, ": ", value>>)>>
            ELSE <<>>)

\* the passes for the sensors `ids` in the order of their ids, with the values
\* `pick` draws
RECURSIVE HistoricalData(_, _, _, _)
HistoricalData(st, ids, pick, t) ==
    IF ids = {} THEN <<>>
    ELSE LET sensor_id == CHOOSE s \in ids : \A o \in ids : s <= o
         IN  HistoricalStatements(sensor_id, st.sensors[sensor_id], pick[sensor_id], t)
             \o HistoricalData(st, ids \ {sensor_id}, pick, t)

\* generate_historical_data(days=0): one pass of the while loop per sensor, at
\* the clock's second, and the commit; a call in which uniform() raises commits
\* nothing
GenerateHistoricalData ==
    /\ Len(store.measurements) < MaxHistory * Cardinality(DOMAIN store.sensors)
    /\ ~WriteLocked
    /\ \E pick \in [DOMAIN store.sensors -> ClassValues \cup {1 * Unit}] :
         /\ \A s \in DOMAIN store.sensors : pick[s] \in HistoricalValues(store.sensors[s])
         /\ store' = Commit(store, HistoricalData(store, DOMAIN store.sensors, pick, now))
    /\ UNCHANGED <<is_running, db_thread, threads, data_queue, last_values, value_lock,
                   db_lock, writerVars, workerVars, callerVars, historyVars, clockVars>>

HistorySpec == ThresholdInit /\ [][GenerateHistoricalData]_vars

(* -------------------------------- C35 ---------------------------------- *)

\* the status the Status Classifier returns for a stored measurement and its
\* sensor's thresholds
Classified(m) ==
    _determine_status(m.value, store.sensors[m.sensor_id].min_warning,
                      store.sensors[m.sensor_id].max_warning,
                      store.sensors[m.sensor_id].min_critical,
                      store.sensors[m.sensor_id].max_critical)

\* C35: the status stored with a historical measurement is the one
\* _determine_status returns for its value and its sensor's four thresholds,
\* unset thresholds and thresholds equal to 0 included.
C35_HistoricalStatusIsClassifier ==
    \A i \in DOMAIN store.measurements :
        store.measurements[i].status = Classified(store.measurements[i])

(* ------------------- check_value on any thresholds --------------------- *)

CheckSpec == ThresholdInit /\ [][CheckValue]_vars

(* -------------------------------- C36 ---------------------------------- *)

\* what check_value finds for a stored row and a value
Found(sensor_id, value) ==
    CheckAlerts(value, store.sensors[sensor_id].min_warning,
                store.sensors[sensor_id].max_warning,
                store.sensors[sensor_id].min_critical,
                store.sensors[sensor_id].max_critical)

\* the classifier's status for a stored row and a value
StatusOf(sensor_id, value) ==
    _determine_status(value, store.sensors[sensor_id].min_warning,
                      store.sensors[sensor_id].max_warning,
                      store.sensors[sensor_id].min_critical,
                      store.sensors[sensor_id].max_critical)

\* the tables after a call that agrees with the classifier: unchanged for an
\* unknown sensor or a Normal value, else one more alert, of the status's
\* severity
Agrees(sensor_id, value) ==
    IF sensor_id \notin DOMAIN store.sensors \/ StatusOf(sensor_id, value) = 0
    THEN store' = store
    ELSE /\ store'.sensors = store.sensors
         /\ store'.measurements = store.measurements
         /\ Len(store'.alerts) = Len(store.alerts) + 1
         /\ SubSeq(store'.alerts, 1, Len(store.alerts)) = store.alerts
         /\ LET alert == store'.alerts[Len(store'.alerts)]
            IN  /\ alert.sensor_id = sensor_id
                /\ alert.value = value
                /\ alert.timestamp = now
                /\ alert.severity = Severity(StatusOf(sensor_id, value))

\* C36: for every value and stored row, check_value finds at most one alert,
\* none where _determine_status returns Normal, a "critical" one where it
\* returns Critical and a "warning" one where it returns Warning; and a call
\* creates exactly what it finds, nothing for a sensor_id that has no row.
C36_CheckValueAgreesWithClassifier ==
    /\ [](\A sensor_id \in DOMAIN store.sensors : \A value \in CheckValues :
            /\ Len(Found(sensor_id, value)) <= 1
            /\ Found(sensor_id, value) = <<>> <=> StatusOf(sensor_id, value) = 0
            /\ Found(sensor_id, value) # <<>>
               => Found(sensor_id, value)[1].severity
                    = Severity(StatusOf(sensor_id, value)))
    /\ [][checks' = checks + 1
          => \E sensor_id \in CheckIds : \E value \in CheckValues :
                Agrees(sensor_id, value)]_vars

\* a call created one critical alert for a value above the critical and the
\* warning maximum
C36_Witness ==
    /\ checks = 1
    /\ store.sensors[1].max_critical = Some(20 * Unit)
    /\ store.sensors[1].max_warning = Some(10 * Unit)
    /\ IsNone(store.sensors[1].min_critical)
    /\ Len(store.alerts) = 1
    /\ store.alerts[1].value = 25 * Unit
    /\ store.alerts[1].severity = "critical"

(* -------------------------------- C37 ---------------------------------- *)

\* the types whose description depends on the value
Directional == {"temperature", "humidity", "light"}

\* the side a description names
Side(description) ==
    IF description[1] \in {"High temperature: ", "High humidity: ", "High light level: "}
    THEN "High"
    ELSE IF description[1] \in {"Low temperature: ", "Low humidity: ", "Low light level: "}
    THEN "Low"
    ELSE "none"

\* the alert's value is at or beyond a maximum, a minimum of its sensor's row
MaxViolated(alert) ==
    \/ AtOrAbove(alert.value, store.sensors[alert.sensor_id].max_warning)
    \/ AtOrAbove(alert.value, store.sensors[alert.sensor_id].max_critical)

MinViolated(alert) ==
    \/ AtOrBelow(alert.value, store.sensors[alert.sensor_id].min_warning)
    \/ AtOrBelow(alert.value, store.sensors[alert.sensor_id].min_critical)

\* the description of an alert names the side its value violated
NamesViolatedSide(alert) ==
    /\ MaxViolated(alert) => Side(alert.description) = "High"
    /\ MinViolated(alert) => Side(alert.description) = "Low"

\* C37, as claimed: the description of an alert of a temperature, humidity or
\* light sensor says "High" when a max threshold is violated and "Low" when a
\* min threshold is, whatever the thresholds.
C37_DescriptionNamesViolatedSide ==
    \A i \in DOMAIN store.alerts :
        store.sensors[store.alerts[i].sensor_id].type \in Directional
        => NamesViolatedSide(store.alerts[i])

\* every set min threshold is at or below the type's normal maximum and every
\* set max threshold is above it
AroundNormalMax(row) ==
    /\ \A t \in {row.min_warning, row.min_critical} :
          ~IsNone(t) => t[1] <= NormalRangeMax(row.type)
    /\ \A t \in {row.max_warning, row.max_critical} :
          ~IsNone(t) => t[1] > NormalRangeMax(row.type)

\* C37, amended: the description says "High" exactly when the value is above
\* the type's normal maximum and "Low" otherwise, which names the violated
\* side when the min thresholds are at or below that maximum and the max
\* thresholds above it.
C37_DescriptionComparesNormalMax ==
    \A i \in DOMAIN store.alerts :
        LET alert == store.alerts[i]
            row == store.sensors[alert.sensor_id]
        IN  row.type \in Directional
            => /\ Side(alert.description) =
                    (IF alert.value > NormalRangeMax(row.type) THEN "High" ELSE "Low")
               /\ AroundNormalMax(row) => NamesViolatedSide(alert)

\* the light worker's Reading at min_warning 200 was stored with an alert that
\* says "Low"
C37_Witness ==
    /\ store.sensors[1].type = "light"
    /\ Len(store.alerts) = 1
    /\ store.alerts[1].value = 200 * Unit
    /\ store.alerts[1].description = <<"Low light level: ", 200 * Unit, " lux">>
    /\ store.alerts[1].severity = "warning"

(* -------------------------------- C38 ---------------------------------- *)

\* the worker in the locked section of _generate_value is one of sensor s
InCallFor(s) == value_lock # <<>> /\ value_lock[2] = s

\* C38: the entry of a sensor that has generated a value is the value
\* _generate_value returned last for it; an entry changes only in a call made
\* for its sensor_id; and a call that fails leaves the entries of the other
\* sensors as they were.
C38_LastValueIsLastReturned ==
    /\ [](\A s \in SensorIds :
            generated[s] # <<>> => last_values[s] = Some(generated[s][Len(generated[s])]))
    /\ [][\A s \in SensorIds : last_values'[s] # last_values[s] => InCallFor(s)]_vars
    /\ [][\A k \in Workers :
            kpc[k] = "locked" /\ kpc'[k] = OnWorkerError /\ generated' = generated
            => \A s \in SensorIds \ {k[2]} : last_values'[s] = last_values[s]]_vars

\* the temperature sensor's entry is the value it generated, after a call for
\* the motion sensor failed behind the seeding and a later one returned
C38_Witness ==
    /\ Len(generated[1]) = 1
    /\ last_values[1] = Some(generated[1][1])
    /\ Len(generated[6]) = 1
    /\ last_values[6] = Some(generated[6][1])
    /\ next_sample[6] = 1
    /\ enqueued = <<>>
    /\ kpc[<<1, 6>>] = "put"
    /\ value_lock = <<>>

====
